---- MODULE Spec2Model ----
(***************************************************************************)
(* Navigation store (navigationStore.ts) and the SpaceMouse controller's   *)
(* motion pipeline (SpaceMouseController.ts) of semantic-sphere.           *)
(*                                                                         *)
(* Numbers: a JavaScript number is modelled as an exact rational <<n, d>>  *)
(* in lowest terms with d > 0, so 0.1, 0.016 and the dead-zone quotient    *)
(* are computed, not approximated.                                         *)
(***************************************************************************)
EXTENDS Integers, Sequences, FiniteSets, TLC

\* ---------------------------------------------------------------- bounds
\* Handler invocations explored after the initial state.
MaxOps == 3
\* Handler invocations explored from a history at, or one below, capacity.
MaxOpsFull == 2
\* Raw axis values are drawn from the multiples of 1/GridSteps in [-1, 1].
GridSteps == 20
\* Samples processed before the constant input starts, and frame ticks run
\* on the constant input.
MaxPrior == 5
SmoothTicks == 6

\* ------------------------------------------------------- instrumentation
\* The record kept of the last handler run: its name, its arguments and
\* whether it raised.
Called(op, args, threw) == [op |-> op, args |-> args, threw |-> threw]

\* ------------------------------------------------------------- rationals
IAbs(i) == IF i < 0 THEN -i ELSE i

RECURSIVE Gcd(_, _)
Gcd(a, b) == IF b = 0 THEN a ELSE Gcd(b, a % b)

\* n/d in lowest terms, d > 0
Rat(n, d) ==
  LET g == Gcd(IAbs(n), IAbs(d))
      s == IF d < 0 THEN -1 ELSE 1
  IN  <<(s * n) \div g, (s * d) \div g>>

R(n) == <<n, 1>>

\* Common factors are divided out before multiplying, which keeps the
\* intermediate integers small.
RAdd(a, b) ==
  LET g == Gcd(a[2], b[2])
  IN  Rat(a[1] * (b[2] \div g) + b[1] * (a[2] \div g), (a[2] \div g) * b[2])
RSub(a, b) == RAdd(a, <<-b[1], b[2]>>)
RMul(a, b) ==
  LET g1 == Gcd(IAbs(a[1]), b[2])
      g2 == Gcd(IAbs(b[1]), a[2])
  IN  Rat((a[1] \div g1) * (b[1] \div g2), (a[2] \div g2) * (b[2] \div g1))
RDiv(a, b) ==
  IF b[1] = 0 THEN Rat(a[1] * b[2], 0)
  ELSE RMul(a, IF b[1] < 0 THEN <<-b[2], -b[1]>> ELSE <<b[2], b[1]>>)
RLt(a, b) ==
  LET g == Gcd(a[2], b[2])
  IN  a[1] * (b[2] \div g) < b[1] * (a[2] \div g)
\* Math.max / Math.min / Math.abs / Math.sign
MathMax(a, b) == IF RLt(a, b) THEN b ELSE a
MathMin(a, b) == IF RLt(b, a) THEN b ELSE a
MathAbs(a) == <<IAbs(a[1]), a[2]>>
MathSign(a) == IF a[1] > 0 THEN R(1) ELSE IF a[1] < 0 THEN R(-1) ELSE R(0)

\* ---------------------------------------------------- navigationStore.ts
maxHistorySize == 50
animationDuration == 1000

defaultCameraState ==
  [position |-> <<R(0), R(0), R(10)>>,
   target   |-> <<R(0), R(0), R(0)>>,
   zoom     |-> R(1),
   fov      |-> R(75)]

\* The store as create() builds it.
InitialStore ==
  [camera              |-> defaultCameraState,
   defaultCamera       |-> defaultCameraState,
   history             |-> <<>>,
   currentHistoryIndex |-> -1,
   isAnimating         |-> FALSE,
   animationDuration   |-> animationDuration,
   isDragging          |-> FALSE,
   isSpaceMouseActive  |-> FALSE]

\* What a handler runs in: the store, the pending auto-clear deadlines
\* (setTimeout callbacks that have not fired yet) and the camera values the
\* store's subscribers were called with, one per set(), in order.
Env(s, t) == [store |-> s, timers |-> t, notified |-> <<>>]

\* zustand set(partial): the merged state replaces the store and every
\* subscriber is called synchronously with it.
set(e, s2) == [e EXCEPT !.store = s2, !.notified = Append(@, s2.camera)]

\* setTimeout(() => set({ isAnimating: false }), animationDuration)
\* Faulty variant: no deadline is scheduled.
setTimeoutClear_dropped(e) == e

setTimeoutClear(e) == [e EXCEPT !.timers = @ + 1]

setCameraPosition(e, position) ==
  set(e, [e.store EXCEPT !.camera.position = position])

setCameraTarget(e, target) ==
  set(e, [e.store EXCEPT !.camera.target = target])

\* Faulty variant: the lower clamp is 0 instead of 0.1.
setZoom_zeroFloor(e, zoom) ==
  set(e, [e.store EXCEPT
            !.camera.zoom = MathMax(R(0), MathMin(R(10), zoom))])

setZoom(e, zoom) ==
  set(e, [e.store EXCEPT
            !.camera.zoom = MathMax(Rat(1, 10), MathMin(R(10), zoom))])

\* Faulty variant: zoom and field of view are left as they are.
resetCamera_keepsZoom(e) ==
  setTimeoutClear(
    set(e, [e.store EXCEPT
              !.camera.position = e.store.defaultCamera.position,
              !.camera.target = e.store.defaultCamera.target,
              !.isAnimating = TRUE]))

resetCamera(e) ==
  setTimeoutClear(
    set(e, [e.store EXCEPT !.camera = e.store.defaultCamera,
                           !.isAnimating = TRUE]))

\* Faulty variant: the index is advanced by one instead of recomputed after the shift.
addToHistory_staleIndex(e) ==
  LET s == e.store
      sliced == SubSeq(s.history, 1, s.currentHistoryIndex + 1)
      pushed == Append(sliced, s.camera)
      newHistory == IF Len(pushed) > maxHistorySize THEN Tail(pushed)
                    ELSE pushed
  IN  set(e, [s EXCEPT !.history = newHistory,
                       !.currentHistoryIndex = s.currentHistoryIndex + 1])

\* Faulty variant: the forward history is not removed.
addToHistory_keepsForward(e) ==
  LET s == e.store
      pushed == Append(s.history, s.camera)
      newHistory == IF Len(pushed) > maxHistorySize THEN Tail(pushed)
                    ELSE pushed
  IN  set(e, [s EXCEPT !.history = newHistory,
                       !.currentHistoryIndex = Len(newHistory) - 1])

\* Faulty variant: the history size is not limited.
addToHistory_noLimit(e) ==
  LET s == e.store
      sliced == SubSeq(s.history, 1, s.currentHistoryIndex + 1)
      newHistory == Append(sliced, s.camera)
  IN  set(e, [s EXCEPT !.history = newHistory,
                       !.currentHistoryIndex = Len(newHistory) - 1])

addToHistory(e) ==
  LET s == e.store
      sliced == SubSeq(s.history, 1, s.currentHistoryIndex + 1)
      pushed == Append(sliced, s.camera)
      newHistory == IF Len(pushed) > maxHistorySize THEN Tail(pushed)
                    ELSE pushed
  IN  set(e, [s EXCEPT !.history = newHistory,
                       !.currentHistoryIndex = Len(newHistory) - 1])

\* An omitted optional argument.
Undefined == <<>>

\* Faulty variant: the history entry is committed before the pose is set.
animateToPosition_commitsFirst(e, position, target) ==
  LET e0 == addToHistory(e)
      currentCamera == e0.store.camera
      newTarget == IF target = Undefined THEN currentCamera.target ELSE target
  IN  setTimeoutClear(
        set(e0, [e0.store EXCEPT
                   !.camera = [currentCamera EXCEPT !.position = position,
                                                    !.target = newTarget],
                   !.isAnimating = TRUE]))

animateToPosition(e, position, target) ==
  LET currentCamera == e.store.camera
      newTarget == IF target = Undefined THEN currentCamera.target ELSE target
      e1 == set(e, [e.store EXCEPT
                      !.camera = [currentCamera EXCEPT !.position = position,
                                                       !.target = newTarget],
                      !.isAnimating = TRUE])
  IN  setTimeoutClear(addToHistory(e1))

\* Faulty variant: the flag and its deadline are set outside the boundary test.
navigateBack_alwaysAnimates(e) ==
  LET s == e.store
      moved == IF s.currentHistoryIndex > 0
               THEN [s EXCEPT
                       !.camera = s.history[(s.currentHistoryIndex - 1) + 1],
                       !.currentHistoryIndex = s.currentHistoryIndex - 1]
               ELSE s
  IN  setTimeoutClear(set(e, [moved EXCEPT !.isAnimating = TRUE]))

\* Faulty variant: the pose is taken from the entry being left.
navigateBack_currentEntry(e) ==
  LET s == e.store
  IN  IF s.currentHistoryIndex > 0
      THEN setTimeoutClear(
             set(e, [s EXCEPT
                       !.camera = s.history[s.currentHistoryIndex + 1],
                       !.currentHistoryIndex = s.currentHistoryIndex - 1,
                       !.isAnimating = TRUE]))
      ELSE e

navigateBack(e) ==
  LET s == e.store
  IN  IF s.currentHistoryIndex > 0
      THEN setTimeoutClear(
             set(e, [s EXCEPT
                       !.camera = s.history[(s.currentHistoryIndex - 1) + 1],
                       !.currentHistoryIndex = s.currentHistoryIndex - 1,
                       !.isAnimating = TRUE]))
      ELSE e

\* Faulty variant: the pose is taken from the entry being left.
navigateForward_currentEntry(e) ==
  LET s == e.store
  IN  IF s.currentHistoryIndex < Len(s.history) - 1
      THEN setTimeoutClear(
             set(e, [s EXCEPT
                       !.camera = s.history[s.currentHistoryIndex + 1],
                       !.currentHistoryIndex = s.currentHistoryIndex + 1,
                       !.isAnimating = TRUE]))
      ELSE e

navigateForward(e) ==
  LET s == e.store
  IN  IF s.currentHistoryIndex < Len(s.history) - 1
      THEN setTimeoutClear(
             set(e, [s EXCEPT
                       !.camera = s.history[(s.currentHistoryIndex + 1) + 1],
                       !.currentHistoryIndex = s.currentHistoryIndex + 1,
                       !.isAnimating = TRUE]))
      ELSE e

setSpaceMouseActive(e, isActive) ==
  set(e, [e.store EXCEPT !.isSpaceMouseActive = isActive])

\* Faulty variant: the deadline passes without clearing the flag.
clearAnimating_leavesFlag(e) == [e EXCEPT !.timers = @ - 1]

\* The deadline's callback: set({ isAnimating: false }).
clearAnimating(e) ==
  [set(e, [e.store EXCEPT !.isAnimating = FALSE]) EXCEPT !.timers = @ - 1]

\* ---------------------------------------------- settingsStore.ts (input)
\* defaultSettings.spaceMouse
defaultSpaceMouseSettings ==
  [sensitivity |-> R(1),
   invertX |-> FALSE, invertY |-> FALSE, invertZ |-> FALSE,
   invertRX |-> FALSE, invertRY |-> FALSE, invertRZ |-> FALSE,
   deadZone |-> Rat(1, 10),
   smoothing |-> Rat(8, 10)]

\* defaultSettings
defaultSettings ==
  [spaceMouse |-> defaultSpaceMouseSettings,
   audio |-> [enabled |-> TRUE, masterVolume |-> Rat(7, 10),
              conceptCreatedVolume |-> Rat(8, 10),
              conceptExpandedVolume |-> Rat(6, 10),
              conceptSelectedVolume |-> Rat(5, 10),
              conceptHoveredVolume |-> Rat(3, 10),
              navigationVolume |-> Rat(4, 10)],
   render |-> [quality |-> "high", antialiasing |-> TRUE, shadows |-> TRUE,
               bloom |-> TRUE, particleEffects |-> TRUE, maxNodes |-> 1000,
               lodDistance |-> 50, animationSpeed |-> R(1)],
   openai |-> [apiKey |-> "", model |-> "gpt-3.5-turbo", maxTokens |-> 1000,
               temperature |-> Rat(7, 10), conceptsPerExpansion |-> 6,
               cacheTimeout |-> 300000],
   ui |-> [theme |-> "dark", fontSize |-> 14, showFPS |-> FALSE,
           showNodeCount |-> TRUE, showConnectionStrength |-> TRUE,
           searchHistorySize |-> 50, autoSaveInterval |-> 300000]]

\* The five sections of AppSettings.
SectionNames == {"spaceMouse", "audio", "render", "openai", "ui"}

\* error while it is null.
NoError == [null |-> TRUE]

\* A caught value's message.
Message(text) == [message |-> text]

\* The store's initial state: ...defaultSettings, isLoading: false, error: null.
InitialSettingsState ==
  [spaceMouse |-> defaultSettings.spaceMouse,
   audio      |-> defaultSettings.audio,
   render     |-> defaultSettings.render,
   openai     |-> defaultSettings.openai,
   ui         |-> defaultSettings.ui,
   isLoading  |-> FALSE,
   error      |-> NoError]

\* { ...a, ...b }
Spread(a, b) ==
  [k \in DOMAIN a \cup DOMAIN b |-> IF k \in DOMAIN b THEN b[k] ELSE a[k]]

\* loadSettings up to its storage read: set({ isLoading: true, error: null }).
loadSettingsBegin(s) == [s EXCEPT !.isLoading = TRUE, !.error = NoError]

\* The read returned an object:
\* set({ ...defaultSettings, ...storedSettings, isLoading: false }).
loadSettingsStored(s, storedSettings) ==
  LET merged == Spread(defaultSettings, storedSettings)
  IN  [s EXCEPT !.spaceMouse = merged["spaceMouse"],
                !.audio = merged["audio"],
                !.render = merged["render"],
                !.openai = merged["openai"],
                !.ui = merged["ui"],
                !.isLoading = FALSE]

\* The read returned nothing: set({ isLoading: false }).
loadSettingsEmpty(s) == [s EXCEPT !.isLoading = FALSE]

\* Faulty variant: the catch block records the error and leaves isLoading set.
loadSettingsFailed_keepsLoading(s, caught) ==
  [s EXCEPT !.error = IF caught.isError THEN Message(caught.message)
                      ELSE Message("Failed to load settings")]

\* The catch block of loadSettings.
loadSettingsFailed(s, caught) ==
  [s EXCEPT !.isLoading = FALSE,
            !.error = IF caught.isError THEN Message(caught.message)
                      ELSE Message("Failed to load settings")]

\* The catch block of saveSettings.
saveSettingsFailed(s, caught) ==
  [s EXCEPT !.error = IF caught.isError THEN Message(caught.message)
                      ELSE Message("Failed to save settings")]

\* updateAudioSettings up to its saveSettings call.
updateAudioSettings(s, newSettings) ==
  [s EXCEPT !.audio = Spread(s.audio, newSettings)]

\* What storage holds under the settings key: everything saveSettings wrote
\* after the user changed four sections, or an audio section alone.
Stored(name) ==
  IF name = "full"
  THEN [spaceMouse |-> [defaultSettings.spaceMouse EXCEPT !.sensitivity = R(2)],
        audio |-> [defaultSettings.audio EXCEPT !.masterVolume = Rat(1, 2)],
        render |-> [defaultSettings.render EXCEPT !.quality = "low"],
        openai |-> defaultSettings.openai,
        ui |-> [defaultSettings.ui EXCEPT !.theme = "light"]]
  ELSE [audio |-> [defaultSettings.audio EXCEPT !.masterVolume = Rat(1, 2)]]

\* What the read or JSON.parse threw: an Error, or a value that is none.
Caught(name) ==
  IF name = "syntaxError"
  THEN [isError |-> TRUE, message |-> "Unexpected token"]
  ELSE [isError |-> FALSE, message |-> ""]

\* loadSettings from its storage read on.
loadSettingsRead(s, outcome) ==
  CASE outcome \in {"full", "partial"} -> loadSettingsStored(s, Stored(outcome))
    [] outcome = "empty" -> loadSettingsEmpty(s)
    [] outcome \in {"syntaxError", "rejected"} ->
         loadSettingsFailed(s, Caught(outcome))

\* saveSettings from its storage write on.
saveSettingsWritten(s, outcome) ==
  IF outcome = "written" THEN s ELSE saveSettingsFailed(s, Caught(outcome))

\* The store's fields beside the spaceMouse section.
Beside(s) ==
  [audio |-> s.audio, render |-> s.render, openai |-> s.openai, ui |-> s.ui,
   isLoading |-> s.isLoading, error |-> s.error]

\* ------------------------------------------------ SpaceMouseController.ts
AxisSet == {"x", "y", "z", "rx", "ry", "rz"}

\* A SpaceMouseMotion without its timestamp, which no computation reads.
Motion(x, y, z, rx, ry, rz) ==
  [x |-> x, y |-> y, z |-> z, rx |-> rx, ry |-> ry, rz |-> rz]

\* lastMotion before the first sample and after cleanup.
Null == [null |-> TRUE]

motionBufferLimit == 10
smoothingBufferLimit == 5

\* animationFrameId while it is null.
NoFrame == 0

\* The controller's fields as the constructor leaves them.
InitialController ==
  [isInitialized    |-> FALSE,
   isConnected      |-> FALSE,
   deviceInfo       |-> Null,
   motionBuffer     |-> <<>>,
   lastMotion       |-> Null,
   smoothingBuffer  |-> [a \in AxisSet |-> <<>>],
   animationFrameId |-> NoFrame]

\* Faulty variant: values outside the dead zone pass through unscaled.
applyDeadZoneToValue_unscaled(value, deadZone) ==
  IF RLt(MathAbs(value), deadZone) THEN R(0) ELSE value

applyDeadZoneToValue(value, deadZone) ==
  LET absValue == MathAbs(value)
  IN  IF RLt(absValue, deadZone) THEN R(0)
      ELSE RMul(MathSign(value),
                RDiv(RSub(absValue, deadZone), RSub(R(1), deadZone)))

applyDeadZone(motion, deadZone) ==
  [a \in AxisSet |-> applyDeadZoneToValue(motion[a], deadZone)]

\* The inversion flag of an axis.
invertFlag(st, a) ==
  CASE a = "x"  -> st.invertX
    [] a = "y"  -> st.invertY
    [] a = "z"  -> st.invertZ
    [] a = "rx" -> st.invertRX
    [] a = "ry" -> st.invertRY
    [] a = "rz" -> st.invertRZ

threshold == Rat(1, 100)

\* Faulty variant: any non-zero axis counts.
hasSignificantMotion_anyMotion(motion) ==
  \E a \in AxisSet : motion[a] # R(0)

hasSignificantMotion(motion) ==
  \E a \in AxisSet : RLt(threshold, MathAbs(motion[a]))

\* Faulty variant: a full buffer drops the new value instead of the oldest.
pushLimited_dropsNewest(buffer, value, limit) ==
  IF Len(buffer) >= limit THEN buffer ELSE Append(buffer, value)

\* push, then shift once past the limit
pushLimited(buffer, value, limit) ==
  LET pushed == Append(buffer, value)
  IN  IF Len(pushed) > limit THEN Tail(pushed) ELSE pushed

\* Faulty variant: sensitivity is applied before the dead zone.
handleMotion_sensitivityFirst(c, e, st, motion) ==
  LET scaled == [a \in AxisSet |-> RMul(motion[a], st.sensitivity)]
      shaped == applyDeadZone(scaled, st.deadZone)
      processedMotion == [a \in AxisSet |->
                            IF invertFlag(st, a) THEN RMul(shaped[a], R(-1))
                            ELSE shaped[a]]
  IN  [ctl |-> [c EXCEPT
                  !.motionBuffer =
                     pushLimited(@, processedMotion, motionBufferLimit),
                  !.lastMotion = processedMotion],
       env |-> setSpaceMouseActive(e, TRUE),
       cues |-> IF hasSignificantMotion(processedMotion) THEN 1 ELSE 0]

\* handleMotion: the controller after the sample, the environment after
\* setSpaceMouseActive(true), and the audio cues played (0 or 1).
handleMotion(c, e, st, motion) ==
  LET shaped == applyDeadZone(motion, st.deadZone)
      inverted == [a \in AxisSet |->
                     IF invertFlag(st, a) THEN RMul(shaped[a], R(-1))
                     ELSE shaped[a]]
      processedMotion == [a \in AxisSet |-> RMul(inverted[a], st.sensitivity)]
  IN  [ctl |-> [c EXCEPT
                  !.motionBuffer =
                     pushLimited(@, processedMotion, motionBufferLimit),
                  !.lastMotion = processedMotion],
       env |-> setSpaceMouseActive(e, TRUE),
       cues |-> IF hasSignificantMotion(processedMotion) THEN 1 ELSE 0]

RECURSIVE ema(_, _, _, _)
\* the loop of calculateSmoothedValue from index i (1-based) on
ema(buffer, smoothingFactor, smoothed, i) ==
  IF i > Len(buffer) THEN smoothed
  ELSE ema(buffer, smoothingFactor,
           RAdd(RMul(smoothingFactor, smoothed),
                RMul(RSub(R(1), smoothingFactor), buffer[i])),
           i + 1)

\* Faulty variant: factor 0 returns the oldest value of the window.
calculateSmoothedValue_oldest(buffer, smoothingFactor) ==
  IF Len(buffer) = 0 THEN R(0)
  ELSE IF smoothingFactor = R(0) THEN buffer[1]
  ELSE ema(buffer, smoothingFactor, buffer[1], 2)

calculateSmoothedValue(buffer, smoothingFactor) ==
  IF Len(buffer) = 0 THEN R(0)
  ELSE IF smoothingFactor = R(0) THEN buffer[Len(buffer)]
  ELSE ema(buffer, smoothingFactor, buffer[1], 2)

\* Faulty variant: only the translation windows take the sample.
pushSmoothing_translationOnly(c) ==
  LET latest == c.motionBuffer[Len(c.motionBuffer)]
  IN  [c EXCEPT !.smoothingBuffer =
         [a \in AxisSet |->
            IF a \in {"x", "y", "z"}
            THEN pushLimited(@[a], latest[a], smoothingBufferLimit)
            ELSE @[a]]]

\* The smoothing windows after the latest sample is pushed onto each.
pushSmoothing(c) ==
  LET latest == c.motionBuffer[Len(c.motionBuffer)]
  IN  [c EXCEPT !.smoothingBuffer =
         [a \in AxisSet |-> pushLimited(@[a], latest[a], smoothingBufferLimit)]]

\* applySmoothingFilter's result, read from the windows it has just updated.
smoothedMotion(c, smoothingFactor) ==
  [a \in AxisSet |->
     calculateSmoothedValue(c.smoothingBuffer[a], smoothingFactor)]

deltaTime == Rat(16, 1000)
translationSpeed == R(5)
rotationSpeed == R(1)

\* Faulty variant: the target moves at the translation speed.
applyMotionToCamera_oneSpeed(e, motion) ==
  LET currentCamera == e.store.camera
      step(v, speed) == RMul(RMul(v, speed), deltaTime)
      newPosition ==
        <<RAdd(currentCamera.position[1], step(motion.x, translationSpeed)),
          RAdd(currentCamera.position[2], step(motion.y, translationSpeed)),
          RAdd(currentCamera.position[3], step(motion.z, translationSpeed))>>
      newTarget ==
        <<RAdd(currentCamera.target[1], step(motion.rx, translationSpeed)),
          RAdd(currentCamera.target[2], step(motion.ry, translationSpeed)),
          RAdd(currentCamera.target[3], step(motion.rz, translationSpeed))>>
  IN  setCameraTarget(setCameraPosition(e, newPosition), newTarget)

applyMotionToCamera(e, motion) ==
  LET currentCamera == e.store.camera
      step(v, speed) == RMul(RMul(v, speed), deltaTime)
      newPosition ==
        <<RAdd(currentCamera.position[1], step(motion.x, translationSpeed)),
          RAdd(currentCamera.position[2], step(motion.y, translationSpeed)),
          RAdd(currentCamera.position[3], step(motion.z, translationSpeed))>>
      newTarget ==
        <<RAdd(currentCamera.target[1], step(motion.rx, rotationSpeed)),
          RAdd(currentCamera.target[2], step(motion.ry, rotationSpeed)),
          RAdd(currentCamera.target[3], step(motion.rz, rotationSpeed))>>
  IN  setCameraTarget(setCameraPosition(e, newPosition), newTarget)

\* Faulty variant: every frame's pose is snapshotted.
processMotion_snapshots(c, e, st) ==
  IF Len(c.motionBuffer) > 0
  THEN LET c1 == pushSmoothing(c)
       IN  [ctl |-> c1,
            env |-> addToHistory(
                      applyMotionToCamera(e, smoothedMotion(c1, st.smoothing)))]
  ELSE [ctl |-> c, env |-> e]

\* Faulty variant: a frame without a sample pushes 0 onto every window.
processMotion_idlePushesZero(c, e, st) ==
  IF Len(c.motionBuffer) > 0
  THEN LET c1 == pushSmoothing(c)
       IN  [ctl |-> c1,
            env |-> applyMotionToCamera(e, smoothedMotion(c1, st.smoothing))]
  ELSE [ctl |-> [c EXCEPT !.smoothingBuffer =
                   [a \in AxisSet |->
                      pushLimited(@[a], R(0), smoothingBufferLimit)]],
        env |-> e]

\* One run of the frame callback processMotion.
processMotion(c, e, st) ==
  IF Len(c.motionBuffer) > 0
  THEN LET c1 == pushSmoothing(c)
       IN  [ctl |-> c1,
            env |-> applyMotionToCamera(e, smoothedMotion(c1, st.smoothing))]
  ELSE [ctl |-> c, env |-> e]

\* ------------------------------------------- the controller's lifecycle
\* What initialize, cleanup and the listeners act on besides the controller
\* and the store: the host bridge window.electronAPI.spaceMouse (is it
\* present, and how many motion/button callback pairs it holds), the
\* keyState object of every keydown/keyup listener pair on window, and the
\* motion-processing loops whose frame callback is pending.
Host(c, e, b, ks, fr) ==
  [ctl |-> c, env |-> e, bridge |-> b, keyStates |-> ks, frames |-> fr]

\* spaceMouse.getDeviceInfo()'s value
DeviceInfo == [name |-> "SpaceMouse"]

\* requestAnimationFrame for a new loop: a handle no pending callback has.
\* A loop keeps one callback pending, so the loop stands for its handle.
freshFrame(frames) ==
  CHOOSE i \in 1..(Cardinality(frames) + 1) :
    i \notin frames /\ \A j \in 1..(i - 1) : j \in frames

\* processMotion() runs once at once, then waits for the next frame.
startMotionProcessing(h, st) ==
  LET r == processMotion(h.ctl, h.env, st)
      id == freshFrame(h.frames)
  IN  [h EXCEPT !.ctl = [r.ctl EXCEPT !.animationFrameId = id],
                !.env = r.env,
                !.frames = @ \cup {id}]

setupKeyboardFallback(h) == [h EXCEPT !.keyStates = Append(@, {})]

initializeWebSpaceMouse(h) == setupKeyboardFallback(h)

\* initialize() after its device set-up returned normally.
initialized(h, st) ==
  [startMotionProcessing(h, st) EXCEPT !.ctl.isInitialized = TRUE]

\* Faulty variant: the error is not caught.
initializeRejects_uncaught(raised) == raised

\* try { ... } catch (error) { console.warn }: does initialize()'s promise
\* reject when its body raised?
initializeRejects(raised) == FALSE

\* initialize() up to its first suspension: without the bridge it runs to
\* its end, with it it waits for spaceMouse.isConnected().
initialize(h, st) ==
  IF h.bridge.present
  THEN [host |-> h, pc |-> "probing", raised |-> FALSE]
  ELSE [host |-> initialized(initializeWebSpaceMouse(h), st),
        pc |-> "done", raised |-> FALSE]

\* initializeElectronSpaceMouse when isConnected() settles.
probed(h, st, outcome) ==
  CASE outcome = "error" ->
         [host |-> h, pc |-> "done", raised |-> TRUE]
    [] outcome = "notConnected" ->
         [host |-> initialized([h EXCEPT !.ctl.isConnected = FALSE], st),
          pc |-> "done", raised |-> FALSE]
    [] outcome = "connected" ->
         [host |-> [h EXCEPT !.ctl.isConnected = TRUE],
          pc |-> "gettingInfo", raised |-> FALSE]

\* initializeElectronSpaceMouse when getDeviceInfo() settles; onMotion may
\* raise (listener registration failure).
gotDeviceInfo(h, st, outcome) ==
  CASE outcome = "infoError" ->
         [host |-> h, pc |-> "done", raised |-> TRUE]
    [] outcome = "registerError" ->
         [host |-> [h EXCEPT !.ctl.deviceInfo = DeviceInfo],
          pc |-> "done", raised |-> TRUE]
    [] outcome = "info" ->
         [host |-> initialized(
                     [h EXCEPT !.ctl.deviceInfo = DeviceInfo,
                               !.bridge.listeners = @ + 1], st),
          pc |-> "done", raised |-> FALSE]

\* Faulty variant: the frame is cancelled but its handle is kept.
cleanup_keepsHandle(h) ==
  LET c == h.ctl
  IN  [h EXCEPT
         !.frames = IF c.animationFrameId # NoFrame
                    THEN @ \ {c.animationFrameId} ELSE @,
         !.bridge = IF @.present THEN [@ EXCEPT !.listeners = 0] ELSE @,
         !.ctl = [c EXCEPT
                    !.motionBuffer = <<>>,
                    !.smoothingBuffer = [a \in AxisSet |-> <<>>],
                    !.lastMotion = Null]]

cleanup(h) ==
  LET c == h.ctl
  IN  [h EXCEPT
         !.frames = IF c.animationFrameId # NoFrame
                    THEN @ \ {c.animationFrameId} ELSE @,
         !.bridge = IF @.present THEN [@ EXCEPT !.listeners = 0] ELSE @,
         !.ctl = [c EXCEPT
                    !.animationFrameId = NoFrame,
                    !.motionBuffer = <<>>,
                    !.smoothingBuffer = [a \in AxisSet |-> <<>>],
                    !.lastMotion = Null]]

\* Faulty variant: a sample is sent on every key event.
processKeyboardInput_always(c, e, st, keyState) ==
  LET sensitivity == RMul(st.sensitivity, Rat(1, 10))
      minus(v, held) == IF held \cap keyState # {} THEN RSub(v, sensitivity)
                        ELSE v
      plus(v, held) == IF held \cap keyState # {} THEN RAdd(v, sensitivity)
                       ELSE v
      x == plus(minus(R(0), {"KeyA"}), {"KeyD"})
      z == plus(minus(R(0), {"KeyW"}), {"KeyS"})
      y == minus(plus(R(0), {"KeyQ"}), {"KeyE"})
      ry == plus(minus(R(0), {"ArrowLeft"}), {"ArrowRight"})
      rx == plus(minus(R(0), {"ArrowUp"}), {"ArrowDown"})
      rz == plus(minus(R(0), {"ShiftLeft", "ShiftRight"}),
                 {"ControlLeft", "ControlRight"})
  IN  handleMotion(c, e, st, Motion(x, y, z, rx, ry, rz))

\* processKeyboardInput: keyState is the set of codes whose entry is true.
processKeyboardInput(c, e, st, keyState) ==
  LET sensitivity == RMul(st.sensitivity, Rat(1, 10))
      minus(v, held) == IF held \cap keyState # {} THEN RSub(v, sensitivity)
                        ELSE v
      plus(v, held) == IF held \cap keyState # {} THEN RAdd(v, sensitivity)
                       ELSE v
      x == plus(minus(R(0), {"KeyA"}), {"KeyD"})
      z == plus(minus(R(0), {"KeyW"}), {"KeyS"})
      y == minus(plus(R(0), {"KeyQ"}), {"KeyE"})
      ry == plus(minus(R(0), {"ArrowLeft"}), {"ArrowRight"})
      rx == plus(minus(R(0), {"ArrowUp"}), {"ArrowDown"})
      rz == plus(minus(R(0), {"ShiftLeft", "ShiftRight"}),
                 {"ControlLeft", "ControlRight"})
  IN  IF x # R(0) \/ y # R(0) \/ z # R(0)
         \/ rx # R(0) \/ ry # R(0) \/ rz # R(0)
      THEN handleMotion(c, e, st, Motion(x, y, z, rx, ry, rz))
      ELSE [ctl |-> c, env |-> e, cues |-> 0]

handleKeyDown(keyState, code) == keyState \cup {code}

handleKeyUp(keyState, code) == keyState \ {code}

\* handleButton. useSemanticStore is used in case 0 but never imported by
\* the controller's module, so evaluating it raises a ReferenceError.
handleButton(e, button, pressed, selectedConcept) ==
  CASE button = 0 ->
         IF pressed
         THEN [env |-> e, expanded |-> 0, threw |-> TRUE]
         ELSE [env |-> e, expanded |-> 0, threw |-> FALSE]
    [] button = 1 ->
         IF pressed
         THEN [env |-> resetCamera(e), expanded |-> 0, threw |-> FALSE]
         ELSE [env |-> e, expanded |-> 0, threw |-> FALSE]
    [] OTHER -> [env |-> e, expanded |-> 0, threw |-> FALSE]

\* ------------------------------------------------------------- Scene3D
\* The Three.js camera: where it is, the point it looks at, its zoom and
\* fov, and whether it is a THREE.PerspectiveCamera.
InitialThree ==
  [position    |-> defaultCameraState.position,
   lookAt      |-> defaultCameraState.target,
   zoom        |-> defaultCameraState.zoom,
   fov         |-> defaultCameraState.fov,
   perspective |-> TRUE]

\* The body of the useEffect under its test.
copyToThree(camera, cameraState) ==
  [camera EXCEPT !.position = cameraState.position,
                 !.lookAt = cameraState.target,
                 !.zoom = cameraState.zoom,
                 !.fov = IF camera.perspective THEN cameraState.fov ELSE @]

\* Scene3D re-renders when a handler has changed the store from before to
\* after; the effect runs if cameraState or isAnimating changed (compared by
\* value) and copies the pose while isAnimating.
Rendered(camera, before, after) ==
  IF /\ after.camera # before.camera \/ after.isAnimating # before.isAnimating
     /\ after.isAnimating
  THEN copyToThree(camera, after.camera)
  ELSE camera

\* The exact root of a perfect square.
ISqrt(n) == CHOOSE k \in 0..n : k * k = n

\* Vector3.length() of a vector whose length is rational; a vector along
\* one axis has the magnitude of its component.
Length(v) ==
  IF Cardinality({i \in 1..3 : v[i] # R(0)}) <= 1
  THEN MathAbs(RAdd(RAdd(v[1], v[2]), v[3]))
  ELSE LET sq == RAdd(RAdd(RMul(v[1], v[1]), RMul(v[2], v[2])),
                      RMul(v[3], v[3]))
       IN  Rat(ISqrt(sq[1]), ISqrt(sq[2]))

\* camera.getWorldDirection(): the unit vector from the camera to the point
\* it looks at.
getWorldDirection(camera) ==
  LET v == [i \in 1..3 |-> RSub(camera.lookAt[i], camera.position[i])]
      l == Length(v)
  IN  [i \in 1..3 |-> RDiv(v[i], l)]

\* updateFromThreeCamera(camera) of the navigation store.
updateFromThreeCamera(e, camera) ==
  IF camera.perspective
  THEN LET direction == getWorldDirection(camera)
           target == [i \in 1..3 |->
                        RAdd(camera.position[i], RMul(direction[i], R(10)))]
       IN  set(e, [e.store EXCEPT
                     !.camera = [@ EXCEPT !.position = camera.position,
                                          !.target = target,
                                          !.zoom = camera.zoom,
                                          !.fov = camera.fov]])
  ELSE e

\* Faulty variant: the pose is written back in every frame.
useFrame_unguarded(e, camera, isAnimating) == updateFromThreeCamera(e, camera)

\* The useFrame callback of Scene3D, rendered with isAnimating.
useFrame(e, camera, isAnimating) ==
  IF ~isAnimating THEN updateFromThreeCamera(e, camera) ELSE e

\* OrbitControls dollies the camera to the given distance from its target,
\* the origin, and keeps it looking there.
dolly(camera, distance) ==
  LET l == Length(camera.position)
  IN  [camera EXCEPT
         !.position = [i \in 1..3 |-> RMul(RDiv(camera.position[i], l),
                                           distance)],
         !.lookAt = <<R(0), R(0), R(0)>>]

\* ------------------------------------------------------- OpenAIService
\* A string is the sequence of its characters.
RECURSIVE join(_, _)
\* Array.prototype.join
join(strings, separator) ==
  IF strings = <<>> THEN <<>>
  ELSE IF Len(strings) = 1 THEN strings[1]
  ELSE strings[1] \o separator \o join(Tail(strings), separator)

\* `${concept}_${description}_${context.join('_')}`
cacheKey(concept, description, context) ==
  concept \o <<"_">> \o description \o <<"_">> \o join(context, <<"_">>)

\* settings.openai.cacheTimeout, in milliseconds.
cacheTimeout == 300000

\* The service as constructed: no client, an empty cache (the Map as the
\* set of its entries, one per key).
InitialService == [client |-> FALSE, isInitialized |-> FALSE, cache |-> {}]

\* cache.get(key): no entry under a key is undefined.
NoEntry == [absent |-> TRUE]

cacheGet(cache, key) ==
  IF \E entry \in cache : entry.key = key
  THEN CHOOSE entry \in cache : entry.key = key
  ELSE NoEntry

cacheSet(cache, key, data, timestamp) ==
  {entry \in cache : entry.key # key}
    \cup {[key |-> key, data |-> data, timestamp |-> timestamp]}

cleanCache(cache, time) ==
  {entry \in cache : ~(time - entry.timestamp > cacheTimeout)}

\* initialize() of the service, its test request answered or refused.
serviceInitialize(s, outcome) ==
  CASE outcome = "noKey" -> s
    [] outcome = "refused" -> [s EXCEPT !.client = TRUE]
    [] outcome = "connected" ->
         [s EXCEPT !.client = TRUE, !.isInitialized = TRUE]

\* The list parseConceptResponse builds from the model's answer to the
\* prompt for these arguments: the concepts related to them.
Concepts(args) == [relatedTo |-> args]

NoData == [none |-> TRUE]

\* generateRelatedConcepts up to its await: it throws, returns the cached
\* data, or sends a request.
generateRelatedConcepts(s, time, args) ==
  LET key == cacheKey(args.concept, args.description, args.context)
      cached == cacheGet(s.cache, key)
  IN  IF ~s.isInitialized \/ ~s.client
      THEN [kind |-> "threw", args |-> args, data |-> NoData, age |-> 0]
      ELSE IF cached # NoEntry /\ time - cached.timestamp < cacheTimeout
      THEN [kind |-> "hit", args |-> args, data |-> cached.data,
            age |-> time - cached.timestamp]
      ELSE [kind |-> "requested", args |-> args, data |-> NoData, age |-> 0]

\* generateRelatedConcepts when its request is answered with a parseable
\* list: the cache after cache.set and cleanCache.
cached(s, time, args) ==
  LET key == cacheKey(args.concept, args.description, args.context)
  IN  [s EXCEPT !.cache =
         cleanCache(cacheSet(@, key, Concepts(args), time), time)]

clearCache(s) == [s EXCEPT !.cache = {}]

\* ------------------------------------------------------------ the system
VARIABLES
  nav,       \* the navigation store's state
  timers,    \* pending auto-clear deadlines (setTimeout callbacks not yet run)
  notified,  \* camera values passed to subscribers by the last handler
  ctl,       \* the SpaceMouseController's fields
  settings,  \* useSettingsStore.getState().spaceMouse
  app,       \* the settings store's other fields: four sections, isLoading, error
  pending,   \* loadSettings() and saveSettings() calls suspended at their await
  cues,      \* playNavigationMove() calls so far
  bridge,    \* window.electronAPI.spaceMouse: present?, callback pairs held
  keyStates, \* the keyState of each keydown/keyup listener pair on window
  frames,    \* motion-processing loops whose frame callback is pending
  calls,     \* initialize() calls suspended at each await
  expansions, \* expandConcept() calls so far
  three,     \* the Three.js camera Scene3D renders with
  svc,       \* the OpenAIService's fields
  now,       \* Date.now()
  inflight,  \* chat-completion requests awaiting their response
  reply,     \* what the last generateRelatedConcepts call or response did
  succeeded, \* the arguments whose response was cached last at a time
  lastOp,    \* the handler that ran last, its arguments, did it raise
  scenario,  \* animateToPosition calls, then navigateBack calls, and nothing else
  budget     \* handler invocations left to explore

vars ==
  <<nav, timers, notified, ctl, settings, app, pending, cues, bridge,
    keyStates, frames, calls, expansions, three, svc, now, inflight, reply,
    succeeded, lastOp, scenario, budget>>

\* The variables of the settings store beside its spaceMouse section.
preferences == <<app, pending>>

\* The variables of the controller's surroundings.
device == <<bridge, keyStates, frames, calls, expansions>>

\* The variables of the concept-generation service.
service == <<svc, now, inflight, reply, succeeded>>

\* ---------------------------------------------------------------- inputs
PositionInputs == {<<R(3), R(0), R(10)>>, <<R(-2), R(5), R(1)>>}
TargetInputs == {Undefined, <<R(1), R(1), R(0)>>}
ZoomInputs == {R(-5), R(0), Rat(1, 20), Rat(5, 2), R(1000)}
RawSamples ==
  {Motion(Rat(55, 100), R(0), R(0), Rat(-55, 100), R(0), R(0)),
   Motion(Rat(5, 100), R(0), R(2), R(0), R(0), R(0)),
   Motion(Rat(1, 10), R(0), R(0), R(0), Rat(-21, 200), R(0))}
ProbeOutcomes == {"connected", "notConnected", "error"}
DeviceInfoOutcomes == {"info", "infoError", "registerError"}
\* <<button, pressed, a concept is selected>>
ButtonEvents ==
  {<<0, TRUE, TRUE>>, <<0, TRUE, FALSE>>, <<0, FALSE, TRUE>>,
   <<1, TRUE, FALSE>>, <<1, FALSE, FALSE>>, <<2, TRUE, TRUE>>}
KeyCodes == {"KeyA", "KeyD", "ArrowUp"}
\* Arguments of generateRelatedConcepts: ("a_b", "c"), ("a", "b_c"),
\* ("a", "b") and ("a", "b", ["c"]).
ArgsInputs ==
  {[concept |-> <<"a", "_", "b">>, description |-> <<"c">>, context |-> <<>>],
   [concept |-> <<"a">>, description |-> <<"b", "_", "c">>, context |-> <<>>],
   [concept |-> <<"a">>, description |-> <<"b">>, context |-> <<>>],
   [concept |-> <<"a">>, description |-> <<"b">>, context |-> << <<"c">> >>]}

NoRequests == [args \in ArgsInputs |-> 0]
NoReply == [kind |-> "none", args |-> <<>>, data |-> NoData, age |-> 0]
NeverSucceeded == {}

\* The k-th place visited before the exploration starts.
Waypoint(k) == <<R(k), R(0), R(10)>>

\* The camera after animateToPosition(Waypoint(k)) from the default pose.
Place(k) == [defaultCameraState EXCEPT !.position = Waypoint(k)]

\* The store after animateToPosition(Waypoint(k)) for k = 1..n from the
\* initial store, each deadline having fired.
Visited(n) ==
  [InitialStore EXCEPT
     !.camera = IF n = 0 THEN defaultCameraState ELSE Place(n),
     !.history = [k \in 1..n |-> Place(k)],
     !.currentHistoryIndex = n - 1]

RECURSIVE VisitedByCalls(_)
\* The same store, computed by making the calls.
VisitedByCalls(n) ==
  IF n = 0 THEN Env(InitialStore, 0)
  ELSE clearAnimating(
         animateToPosition(VisitedByCalls(n - 1), Waypoint(n), Undefined))

\* Visited is what the calls produce (compared for the first few n).
VisitedAgrees == \A n \in 0..5 : VisitedByCalls(n).store = Visited(n)

NoScenario == [animate |-> 0, back |-> 0, pure |-> FALSE]

Track(op) ==
  CASE op = "animateToPosition" ->
         IF scenario.pure /\ scenario.back = 0
         THEN [scenario EXCEPT !.animate = @ + 1] ELSE NoScenario
    [] op = "navigateBack" ->
         IF scenario.pure /\ scenario.animate >= 1
         THEN [scenario EXCEPT !.back = @ + 1] ELSE NoScenario
    [] OTHER -> NoScenario

\* What the handlers act on in the current state.
Here == Host(ctl, Env(nav, timers), bridge, keyStates, frames)

NoCalls == [probing |-> 0, gettingInfo |-> 0]
NoPending == [loadSettings |-> 0, saveSettings |-> 0]

\* The store after n visits, the controller just constructed.
FreshHost(n, present) ==
  Host(InitialController, Env(Visited(n), 0),
       [present |-> present, listeners |-> 0], <<>>, {})

\* initialize() has completed with a connected device.
HardwareHost(n) ==
  LET st == defaultSpaceMouseSettings
      h1 == initialize(FreshHost(n, TRUE), st).host
      h2 == probed(h1, st, "connected").host
  IN  gotDeviceInfo(h2, st, "info").host

\* initialize() has completed without the bridge.
KeyboardHost(n) ==
  initialize(FreshHost(n, FALSE), defaultSpaceMouseSettings).host

\* The state with the store after n visits, ops handler calls to explore,
\* the controller and its surroundings as in h, and the settings st.
InitAll(n, ops, h, st, s) ==
  /\ nav = h.env.store
  /\ timers = h.env.timers
  /\ notified = <<>>
  /\ ctl = h.ctl
  /\ settings = st
  /\ app = Beside(InitialSettingsState)
  /\ pending = NoPending
  /\ cues = 0
  /\ bridge = h.bridge
  /\ keyStates = h.keyStates
  /\ frames = h.frames
  /\ calls = NoCalls
  /\ expansions = 0
  /\ three = InitialThree
  /\ svc = s
  /\ now = 0
  /\ inflight = NoRequests
  /\ reply = NoReply
  /\ succeeded = NeverSucceeded
  /\ lastOp = [op |-> "create", args |-> <<>>, threw |-> FALSE]
  /\ scenario = [animate |-> n, back |-> 0, pure |-> TRUE]
  /\ budget = ops

\* The same with the service as constructed.
InitWith(n, ops, h, st) == InitAll(n, ops, h, st, InitialService)

InitFrom(n, ops, h) == InitWith(n, ops, h, defaultSpaceMouseSettings)

Init ==
  \/ \E present \in BOOLEAN : InitFrom(0, MaxOps, FreshHost(0, present))
  \/ \E n \in {0, maxHistorySize - 1, maxHistorySize} :
       \/ InitFrom(n, MaxOpsFull, HardwareHost(n))
       \/ InitFrom(n, MaxOpsFull, KeyboardHost(n))

\* A handler ran: e is the environment it leaves, threw whether it raised.
RanWith(e, op, args, threw) ==
  /\ nav' = e.store
  /\ timers' = e.timers
  /\ notified' = e.notified
  /\ three' = Rendered(three, nav, e.store)
  /\ lastOp' = Called(op, args, threw)
  /\ scenario' = Track(op)
  /\ budget' = budget - 1

\* A handler ran and returned normally.
Ran(e, op, args) == RanWith(e, op, args, FALSE)

\* The controller and its surroundings become those of h.
Becomes(h) ==
  /\ ctl' = h.ctl
  /\ bridge' = h.bridge
  /\ keyStates' = h.keyStates
  /\ frames' = h.frames

SetZoom(zoom) ==
  /\ budget > 0
  /\ Ran(setZoom(Env(nav, timers), zoom), "setZoom", <<zoom>>)
  /\ UNCHANGED <<ctl, settings, preferences, service, cues, device>>

ResetCamera ==
  /\ budget > 0
  /\ Ran(resetCamera(Env(nav, timers)), "resetCamera", <<>>)
  /\ UNCHANGED <<ctl, settings, preferences, service, cues, device>>

AnimateToPosition(position, target) ==
  /\ budget > 0
  /\ Ran(animateToPosition(Env(nav, timers), position, target),
         "animateToPosition", <<position, target>>)
  /\ UNCHANGED <<ctl, settings, preferences, service, cues, device>>

NavigateBack ==
  /\ budget > 0
  /\ Ran(navigateBack(Env(nav, timers)), "navigateBack", <<>>)
  /\ UNCHANGED <<ctl, settings, preferences, service, cues, device>>

NavigateForward ==
  /\ budget > 0
  /\ Ran(navigateForward(Env(nav, timers)), "navigateForward", <<>>)
  /\ UNCHANGED <<ctl, settings, preferences, service, cues, device>>

AddToHistory ==
  /\ budget > 0
  /\ Ran(addToHistory(Env(nav, timers)), "addToHistory", <<>>)
  /\ UNCHANGED <<ctl, settings, preferences, service, cues, device>>

\* initialize() is called and runs to its first suspension; its awaits of
\* already settled promises resume before any other event.
Initialize ==
  /\ budget > 0
  /\ LET r == initialize(Here, settings)
     IN  /\ RanWith(r.host.env,
                    IF r.pc = "done" THEN "initialize" ELSE "await",
                    <<IF bridge.present THEN "present" ELSE "absent">>,
                    initializeRejects(r.raised))
         /\ Becomes(r.host)
         /\ calls' = IF r.pc = "probing"
                     THEN [calls EXCEPT !.probing = @ + 1] ELSE calls
  /\ UNCHANGED <<settings, preferences, service, cues, expansions>>

\* What an initialize() call leaves when it resumes as r.
Resumed(r, outcome) ==
  /\ nav' = r.host.env.store
  /\ timers' = r.host.env.timers
  /\ notified' = r.host.env.notified
  /\ three' = Rendered(three, nav, r.host.env.store)
  /\ Becomes(r.host)
  /\ lastOp' = [op |-> IF r.pc = "done" THEN "initialize" ELSE "await",
                args |-> <<outcome>>,
                threw |-> initializeRejects(r.raised)]
  /\ UNCHANGED <<settings, preferences, service, cues, expansions, scenario, budget>>

\* spaceMouse.isConnected() settles for a suspended initialize().
InitializeProbed(outcome) ==
  /\ calls.probing > 0
  /\ LET r == probed(Here, settings, outcome)
     IN  /\ Resumed(r, outcome)
         /\ calls' = [calls EXCEPT
                        !.probing = @ - 1,
                        !.gettingInfo =
                           IF r.pc = "gettingInfo" THEN @ + 1 ELSE @]

\* spaceMouse.getDeviceInfo() settles for a suspended initialize().
InitializeGotDeviceInfo(outcome) ==
  /\ calls.gettingInfo > 0
  /\ Resumed(gotDeviceInfo(Here, settings, outcome), outcome)
  /\ calls' = [calls EXCEPT !.gettingInfo = @ - 1]

\* cleanup() is called; lastOp keeps the frame handle it found.
Cleanup ==
  /\ budget > 0
  /\ LET h == cleanup(Here)
     IN  /\ Ran(h.env, "cleanup", <<ctl.animationFrameId>>)
         /\ Becomes(h)
  /\ UNCHANGED <<settings, preferences, service, cues, calls, expansions>>

\* The device calls a registered motion callback.
HandleMotion(motion) ==
  /\ budget > 0
  /\ bridge.listeners > 0
  /\ LET r == handleMotion(ctl, Env(nav, timers), settings, motion)
     IN  /\ Ran(r.env, "handleMotion", <<motion>>)
         /\ ctl' = r.ctl
         /\ cues' = cues + r.cues
  /\ UNCHANGED <<settings, preferences, service, device>>

\* The device calls a registered button callback.
HandleButton(button, pressed, selectedConcept) ==
  /\ budget > 0
  /\ bridge.listeners > 0
  /\ LET r == handleButton(Env(nav, timers), button, pressed, selectedConcept)
     IN  /\ RanWith(r.env, "handleButton",
                    <<button, pressed, selectedConcept>>, r.threw)
         /\ expansions' = expansions + r.expanded
  /\ UNCHANGED <<ctl, settings, preferences, service, cues, bridge, keyStates, frames, calls>>

RECURSIVE dispatchKey(_, _, _, _, _, _, _)
\* A key event on window: the listener pairs from the i-th on run in the
\* order of their registration, each on its own keyState.
dispatchKey(c, e, st, ks, type, code, i) ==
  IF i > Len(ks) THEN [ctl |-> c, env |-> e, cues |-> 0, keyStates |-> ks]
  ELSE LET keyState == IF type = "keydown" THEN handleKeyDown(ks[i], code)
                       ELSE handleKeyUp(ks[i], code)
           r == processKeyboardInput(c, e, st, keyState)
           rest == dispatchKey(r.ctl, r.env, st, [ks EXCEPT ![i] = keyState],
                               type, code, i + 1)
       IN  [rest EXCEPT !.cues = @ + r.cues]

\* A key goes down or up while the window has the focus.
KeyEvent(type, code) ==
  /\ budget > 0
  /\ keyStates # <<>>
  /\ LET r == dispatchKey(ctl, Env(nav, timers), settings, keyStates,
                          type, code, 1)
     IN  /\ Ran(r.env, type, <<code>>)
         /\ ctl' = r.ctl
         /\ cues' = cues + r.cues
         /\ keyStates' = r.keyStates
  /\ UNCHANGED <<settings, preferences, service, bridge, frames, calls, expansions>>

\* The frame callback of a motion-processing loop runs and requests the next
\* frame.
ProcessMotion ==
  /\ budget > 0
  /\ \E loop \in frames :
       LET r == processMotion(ctl, Env(nav, timers), settings)
       IN  /\ Ran(r.env, "processMotion", <<>>)
           /\ ctl' = [r.ctl EXCEPT !.animationFrameId = loop]
  /\ UNCHANGED <<settings, preferences, service, cues, device>>

\* The oldest pending deadline fires.
TimerFire ==
  /\ timers > 0
  /\ LET e == clearAnimating(Env(nav, timers))
     IN  /\ nav' = e.store
         /\ timers' = e.timers
         /\ notified' = e.notified
         /\ three' = Rendered(three, nav, e.store)
  /\ lastOp' = [op |-> "timer", args |-> <<>>, threw |-> FALSE]
  /\ UNCHANGED <<ctl, settings, preferences, service, cues, device, scenario, budget>>

Next ==
  \/ \E zoom \in ZoomInputs : SetZoom(zoom)
  \/ ResetCamera
  \/ \E position \in PositionInputs, target \in TargetInputs :
       AnimateToPosition(position, target)
  \/ NavigateBack
  \/ NavigateForward
  \/ AddToHistory
  \/ Initialize
  \/ \E outcome \in ProbeOutcomes : InitializeProbed(outcome)
  \/ \E outcome \in DeviceInfoOutcomes : InitializeGotDeviceInfo(outcome)
  \/ Cleanup
  \/ \E motion \in RawSamples : HandleMotion(motion)
  \/ \E event \in ButtonEvents : HandleButton(event[1], event[2], event[3])
  \/ \E type \in {"keydown", "keyup"}, code \in KeyCodes : KeyEvent(type, code)
  \/ ProcessMotion
  \/ TimerFire

Spec == Init /\ [][Next]_vars

\* Deadlines are timer callbacks of the event loop: a pending one runs.
FairSpec == Spec /\ WF_vars(TimerFire)

\* ------------------------------------------------- dead-zone shaping alone
\* Dead-zone radii in [0, 1).
DeadZones == {R(0), Rat(1, 10), Rat(1, 2), Rat(9, 10)}

\* Raw axis values in [-1, 1]: the grid, the radii and the documented
\* examples 0.05 and 0.55.
AxisInputs ==
  {Rat(k, GridSteps) : k \in (-GridSteps)..GridSteps}
    \cup DeadZones \cup {RSub(R(0), d) : d \in DeadZones}
    \cup {Rat(5, 100), Rat(55, 100)}

\* A connected device, sensitivity 1, no inversion, any of the radii.
DeadZoneInit ==
  \E d \in DeadZones :
    InitWith(0, 1, HardwareHost(0),
             [defaultSpaceMouseSettings EXCEPT !.deadZone = d])

\* One sample whose x and y are any two raw values.
DeadZoneNext ==
  \E v \in AxisInputs, w \in AxisInputs :
    HandleMotion(Motion(v, w, R(0), R(0), R(0), R(0)))

DeadZoneSpec == DeadZoneInit /\ [][DeadZoneNext]_vars

\* ------------------------------------------------------- smoothing alone
SmoothingInputs == {R(0), Rat(1, 2), Rat(9, 10), R(1)}
SampleValues == {R(0), R(1), Rat(-1, 2)}
PriorValues == {R(0), R(1)}

\* A raw sample that moves along x and turns about rx.
Sample(v) == Motion(v, R(0), R(0), RSub(R(0), v), R(0), R(0))

RECURSIVE Sampled(_, _)
\* A connected device has delivered the samples of values, a frame tick
\* following each.
Sampled(values, st) ==
  IF values = <<>> THEN HardwareHost(0)
  ELSE LET h == Sampled(SubSeq(values, 1, Len(values) - 1), st)
           m == handleMotion(h.ctl, h.env, st, Sample(values[Len(values)]))
           r == processMotion(m.ctl, m.env, st)
       IN  [h EXCEPT !.ctl = [r.ctl EXCEPT !.animationFrameId =
                                              h.ctl.animationFrameId],
                     !.env = Env(r.env.store, r.env.timers)]

\* Any smoothing coefficient, any earlier samples, then the sample that
\* stays the latest one.
SmoothInit ==
  \E factor \in SmoothingInputs, k \in 0..MaxPrior, c \in SampleValues :
    \E values \in [1..k -> PriorValues] :
      LET st == [defaultSpaceMouseSettings EXCEPT !.smoothing = factor]
          h == Sampled(values, st)
          m == handleMotion(h.ctl, h.env, st, Sample(c))
      IN  InitWith(0, SmoothTicks,
                   [h EXCEPT !.ctl = m.ctl,
                             !.env = Env(m.env.store, m.env.timers)],
                   st)

\* Frame ticks and no further sample.
SmoothNext == ProcessMotion

SmoothSpec == SmoothInit /\ [][SmoothNext]_vars

\* --------------------------------------------------- motion buffer alone
\* Samples already delivered when exploration starts.
MaxBuffered == 11

RECURSIVE Buffered(_, _)
\* A connected device has delivered k samples, each different from the
\* others and outside the dead zone, and no frame has run since.
Buffered(k, st) ==
  IF k = 0 THEN HardwareHost(0)
  ELSE LET h == Buffered(k - 1, st)
           m == handleMotion(h.ctl, h.env, st, Sample(Rat(k + 2, GridSteps)))
       IN  [h EXCEPT !.ctl = m.ctl,
                     !.env = Env(m.env.store, m.env.timers)]

BufferInit ==
  \E k \in 0..MaxBuffered :
    InitWith(0, MaxOps, Buffered(k, defaultSpaceMouseSettings),
             defaultSpaceMouseSettings)

\* Further samples, frame ticks and cleanup.
BufferNext ==
  \/ \E motion \in RawSamples : HandleMotion(motion)
  \/ ProcessMotion
  \/ Cleanup

BufferSpec == BufferInit /\ [][BufferNext]_vars

\* ------------------------------------------------ the transforms alone
SensitivityInputs == {Rat(1, 2), R(1), R(2)}
DeadZoneInputs == {Rat(1, 10), Rat(1, 2)}

\* The spaceMouse settings with the given sensitivity and dead zone and
\* exactly the axes of inverted inverted.
Configured(sensitivity, deadZone, inverted) ==
  [defaultSpaceMouseSettings EXCEPT
     !.sensitivity = sensitivity,
     !.deadZone = deadZone,
     !.invertX = "x" \in inverted, !.invertY = "y" \in inverted,
     !.invertZ = "z" \in inverted, !.invertRX = "rx" \in inverted,
     !.invertRY = "ry" \in inverted, !.invertRZ = "rz" \in inverted]

\* A connected device under any of the configurations.
TransformInit ==
  \E sensitivity \in SensitivityInputs, deadZone \in DeadZoneInputs,
     inverted \in SUBSET AxisSet :
    InitWith(0, 1, HardwareHost(0),
             Configured(sensitivity, deadZone, inverted))

TransformNext == \E motion \in RawSamples : HandleMotion(motion)

TransformSpec == TransformInit /\ [][TransformNext]_vars

\* ------------------------------------------------- the keyboard alone
\* Key events explored, and the frames run after the last of them.
MaxKeys == 3
MaxRestTicks == 6

\* Two opposite translation keys, one of the two keys of an axis that has
\* two per direction, its opposite, and a key that is not mapped.
KeyInputs == {"KeyA", "KeyD", "ShiftLeft", "ControlRight", "KeyZ"}

\* The keyboard fallback is set up, under the default sensitivity or twice
\* that.
KeyboardInit ==
  \E sensitivity \in {R(1), R(2)} :
    InitWith(0, MaxKeys + MaxRestTicks, KeyboardHost(0),
             [defaultSpaceMouseSettings EXCEPT !.sensitivity = sensitivity])

\* Key events and frames, then frames only.
KeyboardNext ==
  \/ /\ budget > MaxRestTicks
     /\ \E type \in {"keydown", "keyup"}, code \in KeyInputs :
          KeyEvent(type, code)
  \/ ProcessMotion

KeyboardSpec == KeyboardInit /\ [][KeyboardNext]_vars

\* The frame callback is called as long as it is requested.
\* What every step of ProcessMotion does to the frame budget: the browser serves
\* the pending animation frame.  Under KeyboardNext the steps that satisfy it
\* are exactly the ProcessMotion steps, and it is enabled exactly when
\* ProcessMotion is; it states the fairness of the frame loop without the
\* arithmetic of the tick.
FrameServed ==
  /\ budget > 0
  /\ frames # {}
  /\ budget' = budget - 1
  /\ lastOp' = Called("processMotion", <<>>, FALSE)

\* requestAnimationFrame keeps serving the loop: a pending frame is eventually run.
KeyboardFairSpec == KeyboardSpec /\ WF_budget(FrameServed)

\* ------------------------------------------- visits and the way back
\* Calls explored after the visits made before the exploration starts.
MaxJourney == 5

\* The next visit: the n-th animateToPosition call goes to Waypoint(n), with
\* or without a target.
Visit ==
  \E target \in TargetInputs :
    AnimateToPosition(Waypoint(scenario.animate + 1), target)

\* No visit, a few, or a history at or just below its capacity.
JourneyInit ==
  \E n \in {0, 1, maxHistorySize - 2, maxHistorySize - 1, maxHistorySize} :
    InitFrom(n, MaxJourney, FreshHost(n, FALSE))

JourneyNext ==
  \/ scenario.pure /\ Visit
  \/ NavigateBack
  \/ NavigateForward
  \/ TimerFire

JourneySpec == JourneyInit /\ [][JourneyNext]_vars

\* ------------------------------------------------- the renderer's frames
\* Poses along the z axis, on which every distance is rational.
AxisPositions == {<<R(0), R(0), R(3)>>, <<R(0), R(0), R(-5)>>}
AxisTargets == {Undefined, <<R(0), R(0), R(1)>>}
DollyDistances == {R(2), R(20)}

\* A raw sample that pushes along z.
Advance == Motion(R(0), R(0), Rat(-1, 2), R(0), R(0), R(0))

\* A frame of the renderer: Scene3D's useFrame callback runs.
UseFrame ==
  /\ LET e == useFrame(Env(nav, timers), three, nav.isAnimating)
     IN  /\ nav' = e.store
         /\ timers' = e.timers
         /\ notified' = e.notified
         /\ three' = Rendered(three, nav, e.store)
  /\ lastOp' = Called("useFrame", <<>>, FALSE)
  /\ scenario' = Track("useFrame")
  /\ UNCHANGED <<ctl, settings, preferences, service, cues, device, budget>>

\* The user dollies the view with the mouse wheel.
OrbitDolly(distance) ==
  /\ budget > 0
  /\ three' = dolly(three, distance)
  /\ lastOp' = Called("dolly", <<distance>>, FALSE)
  /\ scenario' = Track("dolly")
  /\ budget' = budget - 1
  /\ UNCHANGED <<nav, timers, notified, ctl, settings, preferences, service, cues, device>>

\* The scene is mounted on a perspective or an orthographic camera; a
\* connected device has delivered one sample.
RenderInit ==
  /\ \E perspective \in BOOLEAN :
       three = [InitialThree EXCEPT !.perspective = perspective]
  /\ LET st == defaultSpaceMouseSettings
         h == HardwareHost(0)
         m == handleMotion(h.ctl, h.env, st, Advance)
     IN  /\ nav = m.env.store
         /\ timers = 0
         /\ notified = <<>>
         /\ ctl = m.ctl
         /\ settings = st
         /\ app = Beside(InitialSettingsState)
         /\ pending = NoPending
         /\ bridge = h.bridge
         /\ keyStates = h.keyStates
         /\ frames = h.frames
  /\ cues = 0
  /\ calls = NoCalls
  /\ expansions = 0
  /\ svc = InitialService
  /\ now = 0
  /\ inflight = NoRequests
  /\ reply = NoReply
  /\ succeeded = NeverSucceeded
  /\ lastOp = Called("create", <<>>, FALSE)
  /\ scenario = NoScenario
  /\ budget = MaxOps

RenderNext ==
  \/ \E zoom \in ZoomInputs : SetZoom(zoom)
  \/ ResetCamera
  \/ \E position \in AxisPositions, target \in AxisTargets :
       AnimateToPosition(position, target)
  \/ NavigateBack
  \/ NavigateForward
  \/ ProcessMotion
  \/ TimerFire
  \/ UseFrame
  \/ \E distance \in DollyDistances : OrbitDolly(distance)

RenderSpec == RenderInit /\ [][RenderNext]_vars

\* --------------------------------------------- concept generation alone
\* Date.now() advances by half the timeout at a time, MaxTicks times.
MaxTicks == 4
MaxCalls == 3

\* The controller, store and renderer stay as constructed.
Idle ==
  UNCHANGED <<nav, timers, notified, ctl, settings, preferences, cues,
              device, three, scenario>>

ServiceInitialize(outcome) ==
  /\ budget > 0
  /\ svc' = serviceInitialize(svc, outcome)
  /\ lastOp' = [op |-> "initializeService", args |-> <<outcome>>,
                threw |-> outcome # "connected"]
  /\ budget' = budget - 1
  /\ UNCHANGED <<now, inflight, reply, succeeded>>
  /\ Idle

GenerateRelatedConcepts(args) ==
  /\ budget > 0
  /\ LET r == generateRelatedConcepts(svc, now, args)
     IN  /\ reply' = r
         /\ inflight' = IF r.kind = "requested"
                        THEN [inflight EXCEPT ![args] = @ + 1] ELSE inflight
         /\ lastOp' = [op |-> "generateRelatedConcepts", args |-> <<args>>,
                       threw |-> r.kind = "threw"]
  /\ budget' = budget - 1
  /\ UNCHANGED <<svc, now, succeeded>>
  /\ Idle

\* A request is answered: with a list, or with an error, no content or
\* content that does not parse.
Response(args, outcome) ==
  /\ inflight[args] > 0
  /\ inflight' = [inflight EXCEPT ![args] = @ - 1]
  /\ IF outcome = "list"
     THEN /\ svc' = cached(svc, now, args)
          /\ reply' = [kind |-> "returned", args |-> args,
                       data |-> Concepts(args), age |-> 0]
          /\ succeeded' = {s \in succeeded : s.args # args}
                             \cup {[args |-> args, at |-> now]}
     ELSE /\ reply' = [kind |-> "threw", args |-> args, data |-> NoData,
                       age |-> 0]
          /\ UNCHANGED <<svc, succeeded>>
  /\ lastOp' = [op |-> "response", args |-> <<args, outcome>>,
                threw |-> outcome # "list"]
  /\ UNCHANGED <<now, budget>>
  /\ Idle

\* clearCache(): nothing is cached any more.
ClearCache ==
  /\ budget > 0
  /\ svc' = clearCache(svc)
  /\ succeeded' = NeverSucceeded
  /\ lastOp' = [op |-> "clearCache", args |-> <<>>, threw |-> FALSE]
  /\ budget' = budget - 1
  /\ UNCHANGED <<now, inflight, reply>>
  /\ Idle

\* Time passes.
ClockTick ==
  /\ now < MaxTicks * (cacheTimeout \div 2)
  /\ now' = now + cacheTimeout \div 2
  /\ lastOp' = [op |-> "clock", args |-> <<>>, threw |-> FALSE]
  /\ UNCHANGED <<svc, inflight, reply, succeeded, budget>>
  /\ Idle

\* The service as constructed, or initialized with a working key.
CacheInit ==
  \E s \in {InitialService, serviceInitialize(InitialService, "connected")} :
    InitAll(0, MaxCalls, FreshHost(0, FALSE), defaultSpaceMouseSettings, s)

CacheNext ==
  \/ \E outcome \in {"noKey", "refused", "connected"} :
       ServiceInitialize(outcome)
  \/ \E args \in ArgsInputs : GenerateRelatedConcepts(args)
  \/ \E args \in ArgsInputs, outcome \in {"list", "error"} :
       Response(args, outcome)
  \/ ClearCache
  \/ ClockTick

CacheSpec == CacheInit /\ [][CacheNext]_vars

\* ------------------------------------------------- the settings alone
MaxLoads == 5
ReadOutcomes == {"full", "partial", "empty", "syntaxError", "rejected"}
WriteOutcomes == {"written", "syntaxError", "rejected"}
AudioInputs == {[enabled |-> FALSE], [masterVolume |-> R(1)]}

\* The settings store's state.
SettingsState ==
  [spaceMouse |-> settings,
   audio      |-> app.audio,
   render     |-> app.render,
   openai     |-> app.openai,
   ui         |-> app.ui,
   isLoading  |-> app.isLoading,
   error      |-> app.error]

\* The controller, navigation store, renderer and service stay as they are.
Elsewhere ==
  UNCHANGED <<nav, timers, notified, ctl, cues, device, three, service,
              scenario>>

\* A handler of the settings store ran and left the state s.
SettingsRan(s, op, args) ==
  /\ settings' = s.spaceMouse
  /\ app' = Beside(s)
  /\ lastOp' = Called(op, args, FALSE)
  /\ Elsewhere

\* loadSettings(): under Electron up to the await of store.get, otherwise
\* to its end (localStorage is read synchronously).
LoadSettings ==
  /\ budget > 0
  /\ budget' = budget - 1
  /\ IF bridge.present
     THEN /\ SettingsRan(loadSettingsBegin(SettingsState), "loadSettings",
                     <<"suspended">>)
          /\ pending' = [pending EXCEPT !.loadSettings = @ + 1]
     ELSE /\ \E outcome \in ReadOutcomes :
               SettingsRan(loadSettingsRead(loadSettingsBegin(SettingsState),
                                        outcome),
                       "loadSettings", <<outcome>>)
          /\ UNCHANGED pending

\* store.get settles and a suspended loadSettings() runs to its end.
LoadSettled(outcome) ==
  /\ pending.loadSettings > 0
  /\ pending' = [pending EXCEPT !.loadSettings = @ - 1]
  /\ SettingsRan(loadSettingsRead(SettingsState, outcome), "loadSettled",
             <<outcome>>)
  /\ UNCHANGED budget

\* updateAudioSettings(newSettings): the section is merged and saveSettings
\* is called, which under Electron suspends at store.set.
UpdateAudioSettings(newSettings) ==
  /\ budget > 0
  /\ budget' = budget - 1
  /\ LET s == updateAudioSettings(SettingsState, newSettings)
     IN  IF bridge.present
         THEN /\ SettingsRan(s, "updateAudioSettings", <<"suspended">>)
              /\ pending' = [pending EXCEPT !.saveSettings = @ + 1]
         ELSE /\ \E outcome \in WriteOutcomes :
                   SettingsRan(saveSettingsWritten(s, outcome),
                           "updateAudioSettings", <<outcome>>)
              /\ UNCHANGED pending

\* store.set settles and a suspended saveSettings() runs to its end.
SaveSettled(outcome) ==
  /\ pending.saveSettings > 0
  /\ pending' = [pending EXCEPT !.saveSettings = @ - 1]
  /\ SettingsRan(saveSettingsWritten(SettingsState, outcome), "saveSettled",
             <<outcome>>)
  /\ UNCHANGED budget

\* With and without window.electronAPI, under two configurations.
LoadInit ==
  \E present \in BOOLEAN, sensitivity \in {R(1), Rat(1, 2)} :
    InitWith(0, MaxLoads, FreshHost(0, present),
             [defaultSpaceMouseSettings EXCEPT !.sensitivity = sensitivity])

LoadNext ==
  \/ LoadSettings
  \/ \E outcome \in ReadOutcomes : LoadSettled(outcome)
  \/ \E newSettings \in AudioInputs : UpdateAudioSettings(newSettings)
  \/ \E outcome \in WriteOutcomes : SaveSettled(outcome)

LoadSpec == LoadInit /\ [][LoadNext]_vars

\* The promises of store.get settle: a suspended loadSettings() resumes.
LoadFairSpec ==
  LoadSpec /\ WF_vars(\E outcome \in ReadOutcomes : LoadSettled(outcome))

\* ================================================================ claims
Commits == {"addToHistory", "animateToPosition"}

\* C1: in every reachable state currentHistoryIndex is -1 exactly when the
\* history is empty, and otherwise lies in 0 .. history.length - 1.
C1_IndexValid ==
  /\ (nav.currentHistoryIndex = -1) <=> (nav.history = <<>>)
  /\ nav.history # <<>> =>
       /\ 0 <= nav.currentHistoryIndex
       /\ nav.currentHistoryIndex <= Len(nav.history) - 1

\* C1 witness: navigateBack has moved the index to the first of several
\* entries.
C1_Witness ==
  /\ lastOp.op = "navigateBack"
  /\ nav.isAnimating
  /\ nav.currentHistoryIndex = 0
  /\ Len(nav.history) >= 2

\* C2: a snapshot committed while the index i is behind the tail leaves the
\* old entries 0..i followed by the current pose, the index on that new last
\* entry; the entries after i are gone.
C2_CommitTruncates ==
  [][(/\ lastOp'.op \in Commits
      /\ nav.currentHistoryIndex < Len(nav.history) - 1)
     => /\ nav'.history =
             Append(SubSeq(nav.history, 1, nav.currentHistoryIndex + 1),
                    nav'.camera)
        /\ nav'.currentHistoryIndex = Len(nav'.history) - 1]_vars

\* C2 witness: a commit has replaced the last of the visited places by the
\* current pose: the entries after the index were cut before the append.
C2_Witness ==
  /\ lastOp.op \in Commits
  /\ Len(nav.history) = maxHistorySize - 1
  /\ nav.history[Len(nav.history) - 1] = Place(Len(nav.history) - 1)
  /\ nav.history[Len(nav.history)] # Place(Len(nav.history))
  /\ nav.history[Len(nav.history)] = nav.camera
  /\ nav.currentHistoryIndex = Len(nav.history) - 1

\* C3: the history never holds more than 50 entries; a snapshot appended to
\* 50 entries with the index at the tail evicts the oldest, keeps the order
\* of the rest and leaves the index on the new snapshot.
C3_HistoryBounded ==
  /\ [](Len(nav.history) <= maxHistorySize)
  /\ [][(/\ lastOp'.op \in Commits
         /\ Len(nav.history) = maxHistorySize
         /\ nav.currentHistoryIndex = maxHistorySize - 1)
        => /\ nav'.history = Append(Tail(nav.history), nav'.camera)
           /\ nav'.currentHistoryIndex = maxHistorySize - 1]_vars

\* C3 witness: a commit onto a full history has evicted the first waypoint.
C3_Witness ==
  /\ lastOp.op \in Commits
  /\ Len(nav.history) = maxHistorySize
  /\ nav.history[1] = Place(2)
  /\ nav.history[maxHistorySize - 1] = Place(maxHistorySize)
  /\ nav.currentHistoryIndex = maxHistorySize - 1

\* C4 (as claimed): after N animateToPosition calls from the initial store,
\* 1 <= N <= 50, and nothing else, N navigateBack calls leave the initial
\* pose, and one more navigateBack leaves the pose as it is.
C4_BackReachesInitialPose ==
  [][/\ (/\ scenario'.pure
         /\ scenario'.animate >= 1
         /\ scenario'.animate <= maxHistorySize
         /\ scenario'.back = scenario'.animate)
        => nav'.camera = InitialStore.camera
     /\ (/\ scenario'.pure
         /\ scenario'.animate >= 1
         /\ scenario'.animate <= maxHistorySize
         /\ scenario'.back = scenario'.animate + 1)
        => nav'.camera = nav.camera]_vars

\* C5: navigateBack at index <= 0 and navigateForward at the tail change
\* nothing: the store is the same, no deadline is scheduled and no
\* subscriber is called.
C5_BoundaryNoOp ==
  [][(\/ /\ lastOp'.op = "navigateBack"
         /\ nav.currentHistoryIndex <= 0
      \/ /\ lastOp'.op = "navigateForward"
         /\ nav.currentHistoryIndex = Len(nav.history) - 1)
     => /\ nav' = nav
        /\ timers' = timers
        /\ notified' = <<>>]_vars

\* C5 witness: navigateBack was called on the first entry with nothing
\* animating, and nothing is animating.
C5_Witness ==
  /\ lastOp.op = "navigateBack"
  /\ nav.currentHistoryIndex = 0
  /\ Len(nav.history) >= 1
  /\ ~nav.isAnimating
  /\ timers = 0

Discrete ==
  {"resetCamera", "animateToPosition", "navigateBack", "navigateForward"}

\* The step is a discrete navigation call that passes its boundary test
\* (button 1 pressed calls resetCamera).
EffectiveCall ==
  \/ lastOp'.op \in {"resetCamera", "animateToPosition"}
  \/ /\ lastOp'.op = "handleButton"
     /\ lastOp'.args[1] = 1
     /\ lastOp'.args[2]
  \/ /\ lastOp'.op = "navigateBack"
     /\ nav.currentHistoryIndex > 0
  \/ /\ lastOp'.op = "navigateForward"
     /\ nav.currentHistoryIndex < Len(nav.history) - 1

\* C6: every effective discrete navigation call leaves isAnimating set;
\* a set flag is eventually cleared by a deadline with no other action, and
\* a clear flag stays clear until the next discrete call.
C6_AnimatingSetThenCleared ==
  /\ [][EffectiveCall => nav'.isAnimating]_vars
  /\ (nav.isAnimating ~> (~nav.isAnimating /\ lastOp.op = "timer"))
  /\ [][(~nav.isAnimating /\ nav'.isAnimating) => EffectiveCall]_vars

\* C6 witness: the last pending deadline has fired and cleared the flag.
C6_Witness ==
  /\ lastOp.op = "timer"
  /\ ~nav.isAnimating
  /\ timers = 0

\* C7 (as claimed): the flag stays set while the deadline of the most
\* recent discrete call is pending, that is, while any deadline is pending
\* (deadlines fire in the order they were scheduled).
C7_FlagHeldUntilLastDeadline == timers > 0 => nav.isAnimating

\* The camera value c shows one half of the move from before to after.
HalfUpdated(c, before, after) ==
  /\ before.position # after.position
  /\ before.target # after.target
  /\ \/ c.position = after.position /\ c.target = before.target
     \/ c.position = before.position /\ c.target = after.target

\* C8 (as claimed): no subscriber is called during a tick with a camera
\* whose position is the tick's new one and whose target is still the old
\* one, or the reverse.
C8_TickCommitsAtomically ==
  [][lastOp'.op = "processMotion"
     => \A i \in DOMAIN notified' :
          ~HalfUpdated(notified'[i], nav.camera, nav'.camera)]_vars

\* C9: a tick leaves history and currentHistoryIndex as they are, and the
\* history's contents change only in addToHistory and animateToPosition.
C9_TickKeepsHistory ==
  /\ [][lastOp'.op = "processMotion"
        => /\ nav'.history = nav.history
           /\ nav'.currentHistoryIndex = nav.currentHistoryIndex]_vars
  /\ [][nav'.history # nav.history => lastOp'.op \in Commits]_vars

\* C9 witness: a tick has moved the camera away from the last snapshot.
C9_Witness ==
  /\ lastOp.op = "processMotion"
  /\ Len(ctl.smoothingBuffer["x"]) > 0
  /\ nav.history # <<>>
  /\ nav.currentHistoryIndex = Len(nav.history) - 1
  /\ nav.camera.position # nav.history[Len(nav.history)].position

\* C10: setZoom(v) commits min(10, max(0.1, v)), so -5 gives 0.1 and 1000
\* gives 10 and the zoom is positive; nothing else in the camera, the
\* history or the index changes.
C10_ZoomClamped ==
  [][lastOp'.op = "setZoom"
     => LET v == lastOp'.args[1]
        IN  /\ nav'.camera =
                 [nav.camera EXCEPT
                    !.zoom = MathMin(R(10), MathMax(Rat(1, 10), v))]
            /\ RLt(R(0), nav'.camera.zoom)
            /\ v = R(-5) => nav'.camera.zoom = Rat(1, 10)
            /\ v = R(1000) => nav'.camera.zoom = R(10)
            /\ nav'.history = nav.history
            /\ nav'.currentHistoryIndex = nav.currentHistoryIndex]_vars

\* C10 witness: setZoom(-5) has left the zoom at 0.1.
C10_Witness ==
  /\ lastOp.op = "setZoom"
  /\ lastOp.args[1] = R(-5)
  /\ nav.camera.zoom = Rat(1, 10)

\* C11 (as claimed): when initialize() returns, exactly one input source has
\* been registered by it: the hardware callbacks if the device was connected,
\* and the keyboard listeners if the bridge is absent, the device is not
\* connected or the probe failed.
C11_OneSourceActive ==
  [][lastOp'.op = "initialize" =>
       LET outcome == lastOp'.args[1]
           hardware == bridge'.listeners = bridge.listeners + 1
           keyboard == Len(keyStates') = Len(keyStates) + 1
       IN  /\ outcome = "info" => hardware /\ ~keyboard
           /\ outcome \in {"absent", "notConnected", "error"} =>
                keyboard /\ ~hardware]_vars

\* C12: initialize() neither throws nor rejects, at its call, at a
\* suspension or when it returns, whatever device discovery did.
C12_InitializeNeverRejects ==
  lastOp.op \in {"initialize", "await"} => ~lastOp.threw

\* C12 witness: initialize() has returned after the registration of the
\* motion listener raised an error; the device information was stored, no
\* callback is registered and the controller is not initialized.
C12_Witness ==
  /\ lastOp.op = "initialize"
  /\ lastOp.args = <<"registerError">>
  /\ ~lastOp.threw
  /\ ctl.deviceInfo = DeviceInfo
  /\ ~ctl.isInitialized
  /\ bridge.listeners = 0

InputEvents == {"handleMotion", "handleButton", "keydown", "keyup"}

\* C13 (as claimed): once cleanup() has run, no frame callback is pending,
\* and a device motion, device button or key event that comes next changes
\* neither the motion buffer, nor the number of audio cues, nor the camera.
C13_NothingScheduledNothingListening ==
  [][lastOp.op = "cleanup" =>
       /\ frames = {}
       /\ lastOp'.op \in InputEvents =>
            /\ ctl'.motionBuffer = ctl.motionBuffer
            /\ cues' = cues
            /\ nav'.camera = nav.camera]_vars

\* C14: cleanup() leaves the buffers empty, lastMotion null and no frame
\* handle, and never raises; a cleanup() that follows a cleanup() changes
\* nothing, and in every reachable state two calls in a row would leave what
\* one call leaves.
C14_CleanupIdempotent ==
  /\ [](cleanup(cleanup(Here)) = cleanup(Here))
  /\ [][lastOp'.op = "cleanup" =>
          /\ ~lastOp'.threw
          /\ ctl'.motionBuffer = <<>>
          /\ ctl'.smoothingBuffer = [a \in AxisSet |-> <<>>]
          /\ ctl'.lastMotion = Null
          /\ ctl'.animationFrameId = NoFrame
          /\ lastOp.op = "cleanup" =>
               UNCHANGED <<nav, timers, ctl, cues, bridge, keyStates,
                           frames>>]_vars

\* C14 witness: cleanup() has run on an initialized controller whose frame
\* handle an earlier cleanup() had already cleared.
C14_Witness ==
  /\ lastOp.op = "cleanup"
  /\ lastOp.args = <<NoFrame>>
  /\ ctl.isInitialized
  /\ ctl.animationFrameId = NoFrame
  /\ frames = {}

\* C15 (as claimed): raw components of magnitude above 1 are clamped, so
\* every axis of every buffered sample has magnitude at most the configured
\* sensitivity.
C15_SamplesClamped ==
  \A i \in 1..Len(ctl.motionBuffer), a \in AxisSet :
    ~RLt(settings.sensitivity, MathAbs(ctl.motionBuffer[i][a]))

RLe(a, b) == ~RLt(b, a)

\* C16: with sensitivity 1 and no inversion the sample handleMotion buffers
\* is the shaped one. For radius d and raw values v, w in [-1, 1]: the shaped
\* value is 0 when |v| <= d and sign(v)*(|v|-d)/(1-d) otherwise; it is 0 at
\* |v| = d and has magnitude 1 at |v| = 1; it is non-decreasing in |v| and
\* differs between two inputs by at most their distance over 1-d (no jump);
\* with d = 0.1, 0.05 gives 0 and 0.55 gives 0.5.
C16_DeadZoneShape ==
  lastOp.op = "handleMotion" =>
    LET raw == lastOp.args[1]
        out == ctl.lastMotion
        d == settings.deadZone
        v == raw.x
        w == raw.y
    IN  /\ out.x = IF RLe(MathAbs(v), d) THEN R(0)
                   ELSE RMul(MathSign(v),
                             RDiv(RSub(MathAbs(v), d), RSub(R(1), d)))
        /\ MathAbs(v) = d => out.x = R(0)
        /\ MathAbs(v) = R(1) => MathAbs(out.x) = R(1)
        /\ RLe(MathAbs(v), MathAbs(w)) =>
             /\ RLe(MathAbs(out.x), MathAbs(out.y))
             /\ RLe(RSub(MathAbs(out.y), MathAbs(out.x)),
                    RDiv(RSub(MathAbs(w), MathAbs(v)), RSub(R(1), d)))
        /\ (d = Rat(1, 10) /\ v = Rat(5, 100)) => out.x = R(0)
        /\ (d = Rat(1, 10) /\ v = Rat(55, 100)) => out.x = Rat(1, 2)

\* C16 witness: with radius 0.1 a sample with x = 0.55 and y = -0.1 (on the
\* boundary) has been shaped to x = 0.5 and y = 0.
C16_Witness ==
  /\ lastOp.op = "handleMotion"
  /\ settings.deadZone = Rat(1, 10)
  /\ lastOp.args[1].x = Rat(55, 100)
  /\ lastOp.args[1].y = Rat(-1, 10)
  /\ ctl.lastMotion.x = Rat(1, 2)
  /\ ctl.lastMotion.y = R(0)

\* The most recently inserted value of each axis's smoothing window.
Latest(c) ==
  [a \in AxisSet |-> c.smoothingBuffer[a][Len(c.smoothingBuffer[a])]]

\* C17: with smoothing coefficient 0 a frame tick smooths every axis to the
\* most recently inserted value of its window, and moves the camera by that
\* value.
C17_ZeroSmoothingIsLatest ==
  [][(lastOp'.op = "processMotion" /\ settings.smoothing = R(0)) =>
       /\ smoothedMotion(ctl', settings.smoothing) = Latest(ctl')
       /\ nav'.camera =
            applyMotionToCamera(Env(nav, timers), Latest(ctl')).store.camera]_vars

\* C17 witness: a tick with coefficient 0 has run on a full window whose
\* oldest and latest values differ, and the camera has left its place.
C17_Witness ==
  /\ lastOp.op = "processMotion"
  /\ settings.smoothing = R(0)
  /\ Len(ctl.smoothingBuffer["x"]) = smoothingBufferLimit
  /\ ctl.smoothingBuffer["x"][1] # ctl.smoothingBuffer["x"][smoothingBufferLimit]
  /\ Latest(ctl).x # R(0)
  /\ budget = SmoothTicks - 1

\* The smoothed x of the last tick: applySmoothingFilter computes it from
\* the window it leaves.
SmoothedX(c) == calculateSmoothedValue(c.smoothingBuffer["x"], settings.smoothing)

RECURSIVE Span(_, _, _)
\* The largest distance from v to the entries i.. of window.
Span(window, v, i) ==
  IF i > Len(window) THEN R(0)
  ELSE MathMax(MathAbs(RSub(v, window[i])), Span(window, v, i + 1))

\* C18 (as claimed): on a tick whose input is the constant c, whatever the
\* window held, the smoothed output moves by at most (1 - smoothing) times
\* the largest distance from c to a value in the window (the step of an
\* exponential moving average, which vanishes as the coefficient approaches
\* 1), and it does not pass c.
C18_ConstantInputConverges ==
  [][(lastOp'.op = "processMotion" /\ Len(ctl.smoothingBuffer["x"]) > 0) =>
       LET c == ctl.motionBuffer[Len(ctl.motionBuffer)].x
           out == SmoothedX(ctl)
           next == SmoothedX(ctl')
           epsilon == RMul(RSub(R(1), settings.smoothing),
                           Span(ctl.smoothingBuffer["x"], c, 1))
       IN  /\ RLe(MathAbs(RSub(next, out)), epsilon)
           /\ RLe(out, c) => RLe(next, c)
           /\ RLe(c, out) => RLe(c, next)]_vars

\* C19: handleMotion appends its processed sample to the motion buffer
\* (dropping the oldest past 10) and keeps it as lastMotion, and it plays the
\* navigation cue once if some axis of that sample has magnitude above 0.01
\* and not otherwise; a frame tick plays no cue.
C19_CuePerSignificantSample ==
  [][/\ lastOp'.op = "handleMotion" =>
          /\ ctl'.lastMotion # Null
          /\ ctl'.motionBuffer =
               pushLimited(ctl.motionBuffer, ctl'.lastMotion, motionBufferLimit)
          /\ cues' = cues +
               (IF \E a \in AxisSet :
                     RLt(Rat(1, 100), MathAbs(ctl'.lastMotion[a]))
                THEN 1 ELSE 0)
     /\ lastOp'.op = "processMotion" => cues' = cues]_vars

\* C19 witness: a significant sample, then one whose largest axis is non-zero
\* but at most 0.01: both are buffered, one cue has played.
C19_Witness ==
  /\ lastOp.op = "handleMotion"
  /\ Len(ctl.motionBuffer) = 2
  /\ cues = 1
  /\ ctl.lastMotion.ry # R(0)
  /\ \A a \in AxisSet : RLe(MathAbs(ctl.lastMotion[a]), Rat(1, 100))

\* C20 (as claimed): a button event raises no error; button 1 pressed does
\* what resetCamera does; button 0 pressed expands the selected concept
\* exactly when one is selected and leaves the store alone; a release or any
\* other button leaves camera, history, motion buffer and animating flag
\* unchanged.
C20_ButtonEffects ==
  [][lastOp'.op = "handleButton" =>
       LET button == lastOp'.args[1]
           pressed == lastOp'.args[2]
           selectedConcept == lastOp'.args[3]
           reset == resetCamera(Env(nav, timers))
       IN  /\ ~lastOp'.threw
           /\ ctl' = ctl
           /\ (button = 1 /\ pressed) =>
                /\ nav' = reset.store
                /\ timers' = reset.timers
                /\ expansions' = expansions
           /\ (button = 0 /\ pressed) =>
                /\ expansions' = expansions + (IF selectedConcept THEN 1 ELSE 0)
                /\ nav' = nav
           /\ (~pressed \/ button \notin {0, 1}) =>
                /\ nav' = nav
                /\ timers' = timers
                /\ expansions' = expansions]_vars

\* C21 (as claimed): a generateRelatedConcepts call made less than five
\* minutes after a call with the same concept, description and context
\* cached its response (and with no clearCache() since) sends no request and
\* returns the list cached for these arguments; and no call returns an entry
\* that is five minutes old or older.
C21_CachedForTimeout ==
  [][lastOp'.op = "generateRelatedConcepts" =>
       LET args == lastOp'.args[1]
       IN  /\ (\E s \in succeeded :
                  s.args = args /\ now - s.at < 5 * 60 * 1000) =>
                /\ reply'.kind = "hit"
                /\ inflight' = inflight
                /\ reply'.data = Concepts(args)
           /\ reply'.kind = "hit" => reply'.age < 5 * 60 * 1000]_vars

\* C22: after resetCamera() the position, target, zoom and field of view
\* equal the stored default pose, the history and currentHistoryIndex are
\* unchanged, and no operation changes the stored default pose.
C22_ResetRestoresDefault ==
  [][/\ lastOp'.op = "resetCamera" =>
          /\ nav'.camera.position = nav.defaultCamera.position
          /\ nav'.camera.target = nav.defaultCamera.target
          /\ nav'.camera.zoom = nav.defaultCamera.zoom
          /\ nav'.camera.fov = nav.defaultCamera.fov
          /\ nav'.history = nav.history
          /\ nav'.currentHistoryIndex = nav.currentHistoryIndex
     /\ nav'.defaultCamera = nav.defaultCamera]_vars

\* C22 witness: resetCamera() ran on a visited history whose current entry
\* is not the default pose, after the zoom had been changed.
C22_Witness ==
  /\ lastOp.op = "resetCamera"
  /\ nav.currentHistoryIndex >= 0
  /\ nav.history[nav.currentHistoryIndex + 1] # nav.defaultCamera
  /\ nav.camera = nav.defaultCamera

\* C23: after animateToPosition(p, t) the position is p, the target is t
\* (the previous target when t is omitted), zoom and field of view are
\* unchanged, the last history entry equals the resulting pose and
\* currentHistoryIndex points at it.
C23_AnimateSetsPoseAndCommits ==
  [][lastOp'.op = "animateToPosition" =>
       LET p == lastOp'.args[1]
           t == lastOp'.args[2]
       IN  /\ nav'.camera.position = p
           /\ nav'.camera.target =
                IF t = Undefined THEN nav.camera.target ELSE t
           /\ nav'.camera.zoom = nav.camera.zoom
           /\ nav'.camera.fov = nav.camera.fov
           /\ nav'.history # <<>>
           /\ nav'.history[Len(nav'.history)] = nav'.camera
           /\ nav'.currentHistoryIndex = Len(nav'.history) - 1]_vars

\* C23 witness: animateToPosition ran without a target after an earlier
\* call had moved the target away from the default.
C23_Witness ==
  /\ lastOp.op = "animateToPosition"
  /\ lastOp.args[2] = Undefined
  /\ nav.camera.target = <<R(1), R(1), R(0)>>
  /\ Len(nav.history) >= 2
  /\ nav.history[Len(nav.history)] = nav.camera

\* C24: the motion buffer holds at most 10 samples in every reachable
\* state, in insertion order; a push on a full buffer evicts exactly the
\* oldest sample; the last element always equals lastMotion.
C24_MotionBufferBounded ==
  /\ Len(ctl.motionBuffer) <= 10
  /\ ctl.motionBuffer # <<>> =>
       ctl.motionBuffer[Len(ctl.motionBuffer)] = ctl.lastMotion
  /\ [][/\ Len(ctl'.motionBuffer) <= 10
        /\ ctl'.motionBuffer # <<>> =>
             ctl'.motionBuffer[Len(ctl'.motionBuffer)] = ctl'.lastMotion
        /\ lastOp'.op = "handleMotion" =>
             ctl'.motionBuffer =
               IF Len(ctl.motionBuffer) < 10
               THEN Append(ctl.motionBuffer, ctl'.lastMotion)
               ELSE Append(Tail(ctl.motionBuffer), ctl'.lastMotion)
        /\ lastOp'.op \notin {"handleMotion", "keydown", "keyup"} =>
             ctl'.motionBuffer \in {ctl.motionBuffer, <<>>}]_vars

\* C24 witness: a sample arrived on a full buffer, whose ten entries are now
\* the nine newest of before and the new one.
C24_Witness ==
  /\ lastOp.op = "handleMotion"
  /\ Len(ctl.motionBuffer) = 10
  /\ ctl.motionBuffer[1] =
       Buffered(2, defaultSpaceMouseSettings).ctl.lastMotion
  /\ ctl.motionBuffer[9] =
       Buffered(10, defaultSpaceMouseSettings).ctl.lastMotion
  /\ ctl.motionBuffer[10] = ctl.lastMotion
  /\ ctl.lastMotion # ctl.motionBuffer[9]

\* C25: the camera pose in the store is changed only by the camera driver's
\* per-frame tick and by the explicit navigation actions setZoom,
\* resetCamera, animateToPosition, navigateBack and navigateForward; no
\* frame callback of the renderer writes the pose into the store.
C25_PoseWriters ==
  [][nav'.camera # nav.camera =>
       lastOp'.op \in {"processMotion", "setZoom", "resetCamera",
                       "animateToPosition", "navigateBack",
                       "navigateForward"}]_vars

C27_BackRetracesVisits ==
  [][(/\ scenario'.pure
      /\ scenario'.animate >= 1
      /\ scenario'.animate <= 50
      /\ scenario'.back <= scenario'.animate - 1)
     => /\ nav'.camera.position = Waypoint(scenario'.animate - scenario'.back)
        /\ nav'.camera = nav'.history[scenario'.animate - scenario'.back]
        /\ nav'.currentHistoryIndex =
             scenario'.animate - 1 - scenario'.back]_vars

\* C27 witness: three visits from the initial store and two steps back have
\* ended at the first place visited.
C27_Witness ==
  /\ scenario.pure
  /\ scenario.animate = 3
  /\ scenario.back = 2
  /\ lastOp.op = "navigateBack"
  /\ nav.camera.position = Waypoint(1)
  /\ nav.currentHistoryIndex = 0
  /\ Len(nav.history) = 3

\* C28: navigateBack and navigateForward move currentHistoryIndex by exactly
\* one and set the pose to the snapshot at the new index, and never change
\* the history's contents; a navigateBack from an index above 0 followed by
\* navigateForward restores the index, with the pose of history at it.
C28_TraversalStepsByOne ==
  [][/\ (lastOp'.op = "navigateBack" /\ nav.currentHistoryIndex > 0) =>
          /\ nav'.currentHistoryIndex = nav.currentHistoryIndex - 1
          /\ nav'.camera = nav.history[nav'.currentHistoryIndex + 1]
     /\ (/\ lastOp'.op = "navigateForward"
         /\ nav.currentHistoryIndex < Len(nav.history) - 1) =>
          /\ nav'.currentHistoryIndex = nav.currentHistoryIndex + 1
          /\ nav'.camera = nav.history[nav'.currentHistoryIndex + 1]
     /\ lastOp'.op \in {"navigateBack", "navigateForward"} =>
          nav'.history = nav.history
     /\ (/\ lastOp.op = "navigateBack"
         /\ notified # <<>>
         /\ lastOp'.op = "navigateForward") =>
          /\ nav'.currentHistoryIndex = nav.currentHistoryIndex + 1
          /\ nav'.camera = nav'.history[nav'.currentHistoryIndex + 1]]_vars

\* C28 witness: navigateForward has moved to the last of several entries,
\* which a navigateBack had left before.
C28_Witness ==
  /\ lastOp.op = "navigateForward"
  /\ notified # <<>>
  /\ Len(nav.history) >= 2
  /\ nav.currentHistoryIndex = Len(nav.history) - 1
  /\ nav.camera = nav.history[Len(nav.history)]
  /\ nav.camera # nav.history[Len(nav.history) - 1]

\* C29: a tick that finds the motion buffer empty changes neither the six
\* smoothing windows nor the camera pose; it only schedules the next frame
\* callback.
C29_IdleTickIsNoOp ==
  [][(lastOp'.op = "processMotion" /\ ctl.motionBuffer = <<>>) =>
       /\ ctl'.smoothingBuffer = ctl.smoothingBuffer
       /\ ctl' = [ctl EXCEPT !.animationFrameId = ctl'.animationFrameId]
       /\ ctl'.animationFrameId \in frames'
       /\ frames' = frames
       /\ nav' = nav
       /\ timers' = timers
       /\ notified' = <<>>
       /\ cues' = cues]_vars

\* C29 witness: a frame ran on a connected controller that had no sample,
\* and its loop is still pending.
C29_Witness ==
  /\ lastOp.op = "processMotion"
  /\ ctl.motionBuffer = <<>>
  /\ ctl.isConnected
  /\ ctl.animationFrameId \in frames
  /\ \A a \in AxisSet : ctl.smoothingBuffer[a] = <<>>
  /\ nav.camera = defaultCameraState

RECURSIVE LeftFold(_, _, _, _)
\* s := a * s + (1 - a) * w[i] for the entries i.. of the window w.
LeftFold(w, a, s, i) ==
  IF i > Len(w) THEN s
  ELSE LeftFold(w, a, RAdd(RMul(a, s), RMul(RSub(R(1), a), w[i])), i + 1)

\* The smallest and the largest entry of a non-empty window.
Least(w) == CHOOSE v \in {w[i] : i \in 1..Len(w)} :
              \A i \in 1..Len(w) : RLe(v, w[i])
Greatest(w) == CHOOSE v \in {w[i] : i \in 1..Len(w)} :
                 \A i \in 1..Len(w) : RLe(w[i], v)

\* C30: a tick on a non-empty buffer appends the latest sample's value to
\* each of the six windows; the six windows always have the same length, at
\* most 5, the oldest value leaving first; for a coefficient a in [0, 1] the
\* smoothed value is the left fold s := w[0], s := a*s + (1-a)*w[i], which
\* lies between the smallest and the largest value of the window.
C30_WindowsAndFold ==
  /\ \A a \in AxisSet :
       /\ Len(ctl.smoothingBuffer[a]) <= 5
       /\ Len(ctl.smoothingBuffer[a]) = Len(ctl.smoothingBuffer["x"])
  /\ [][(lastOp'.op = "processMotion" /\ ctl.motionBuffer # <<>>) =>
          LET latest == ctl.motionBuffer[Len(ctl.motionBuffer)]
              folded == [a \in AxisSet |->
                           LeftFold(ctl'.smoothingBuffer[a], settings.smoothing,
                                    ctl'.smoothingBuffer[a][1], 2)]
          IN  /\ \A a \in AxisSet :
                   LET w == ctl.smoothingBuffer[a]
                       w2 == ctl'.smoothingBuffer[a]
                   IN  /\ w2 = IF Len(w) < 5 THEN Append(w, latest[a])
                               ELSE Append(Tail(w), latest[a])
                       /\ Len(w2) <= 5
                       /\ Len(w2) = Len(ctl'.smoothingBuffer["x"])
                       /\ RLe(Least(w2), folded[a])
                       /\ RLe(folded[a], Greatest(w2))
              /\ smoothedMotion(ctl', settings.smoothing) = folded
              /\ nav'.camera =
                   applyMotionToCamera(Env(nav, timers), folded).store.camera]_vars

\* C30 witness: a tick with a coefficient strictly between 0 and 1 has pushed
\* onto full windows holding different values, and the fold lies strictly
\* between the extremes.
C30_Witness ==
  /\ lastOp.op = "processMotion"
  /\ settings.smoothing = Rat(1, 2)
  /\ budget = SmoothTicks - 1
  /\ \A a \in AxisSet : Len(ctl.smoothingBuffer[a]) = 5
  /\ LET w == ctl.smoothingBuffer["rx"]
         s == LeftFold(w, settings.smoothing, w[1], 2)
     IN  /\ RLt(Least(w), s)
         /\ RLt(s, Greatest(w))
         /\ w[5] # w[4]

\* C31: a tick with smoothed sample m adds m.x, m.y, m.z times 5.0 * 0.016
\* to the position's components and m.rx, m.ry, m.rz times 1.0 * 0.016 to
\* the target's, both taken from the pose at the start of the tick, and
\* leaves zoom, fov, isAnimating and the default pose as they are.
C31_TickIntegratesMotion ==
  [][(lastOp'.op = "processMotion" /\ ctl.motionBuffer # <<>>) =>
       LET m == smoothedMotion(ctl', settings.smoothing)
           old == nav.camera
           new == nav'.camera
       IN  /\ new.position =
                <<RAdd(old.position[1], RMul(m.x, Rat(80, 1000))),
                  RAdd(old.position[2], RMul(m.y, Rat(80, 1000))),
                  RAdd(old.position[3], RMul(m.z, Rat(80, 1000)))>>
           /\ new.target =
                <<RAdd(old.target[1], RMul(m.rx, Rat(16, 1000))),
                  RAdd(old.target[2], RMul(m.ry, Rat(16, 1000))),
                  RAdd(old.target[3], RMul(m.rz, Rat(16, 1000)))>>
           /\ new.zoom = old.zoom
           /\ new.fov = old.fov
           /\ nav'.isAnimating = nav.isAnimating
           /\ nav'.defaultCamera = nav.defaultCamera]_vars

\* C31 witness: a tick has moved both the position and the target away from
\* the default pose.
C31_Witness ==
  /\ lastOp.op = "processMotion"
  /\ ctl.motionBuffer # <<>>
  /\ nav.camera.position[1] # defaultCameraState.position[1]
  /\ nav.camera.target[1] # defaultCameraState.target[1]
  /\ nav.camera.zoom = defaultCameraState.zoom

\* The configuration st with the inversion of axis a switched.
Toggled(st, a) ==
  CASE a = "x"  -> [st EXCEPT !.invertX = ~@]
    [] a = "y"  -> [st EXCEPT !.invertY = ~@]
    [] a = "z"  -> [st EXCEPT !.invertZ = ~@]
    [] a = "rx" -> [st EXCEPT !.invertRX = ~@]
    [] a = "ry" -> [st EXCEPT !.invertRY = ~@]
    [] a = "rz" -> [st EXCEPT !.invertRZ = ~@]

\* C32: handleMotion applies the dead zone to the raw value, then the
\* inversion, then the sensitivity: each buffered axis is sensitivity times
\* -1 (if the axis is inverted) times the shaped raw value; switching one
\* axis's inversion negates that axis of the buffered sample and no other,
\* and switching it twice gives the original sample.
C32_TransformOrder ==
  lastOp.op = "handleMotion" =>
    LET raw == lastOp.args[1]
        out == ctl.lastMotion
        d == settings.deadZone
        shaped(v) == IF RLt(MathAbs(v), d) THEN R(0)
                     ELSE RMul(MathSign(v),
                               RDiv(RSub(MathAbs(v), d), RSub(R(1), d)))
        sign(a) == IF invertFlag(settings, a) THEN R(-1) ELSE R(1)
        sample(st) == handleMotion(InitialController, Env(nav, timers), st,
                                   raw).ctl.lastMotion
    IN  /\ \A a \in AxisSet :
             out[a] = RMul(settings.sensitivity, RMul(sign(a), shaped(raw[a])))
        /\ out = sample(settings)
        /\ \A a \in AxisSet :
             LET once == sample(Toggled(settings, a))
                 twice == sample(Toggled(Toggled(settings, a), a))
             IN  /\ once[a] = RSub(R(0), out[a])
                 /\ \A b \in AxisSet \ {a} : once[b] = out[b]
                 /\ twice = out

\* C32 witness: with sensitivity 2, dead zone 0.1 and x inverted, a raw x of
\* 0.55 was buffered as -1 while rx = -0.55, not inverted, was buffered as -1.
C32_Witness ==
  /\ lastOp.op = "handleMotion"
  /\ settings.sensitivity = R(2)
  /\ settings.deadZone = Rat(1, 10)
  /\ settings.invertX
  /\ ~settings.invertRX
  /\ lastOp.args[1].x = Rat(55, 100)
  /\ ctl.lastMotion.x = R(-1)
  /\ ctl.lastMotion.rx = R(-1)

\* The net direction the held keys give on each axis: the plus keys held
\* count 1, the minus keys held count -1.
NetAxes(held) ==
  LET net(minusKeys, plusKeys) ==
        (IF plusKeys \cap held # {} THEN 1 ELSE 0)
          - (IF minusKeys \cap held # {} THEN 1 ELSE 0)
  IN  [a \in AxisSet |->
         CASE a = "x"  -> net({"KeyA"}, {"KeyD"})
           [] a = "y"  -> net({"KeyE"}, {"KeyQ"})
           [] a = "z"  -> net({"KeyW"}, {"KeyS"})
           [] a = "rx" -> net({"ArrowUp"}, {"ArrowDown"})
           [] a = "ry" -> net({"ArrowLeft"}, {"ArrowRight"})
           [] a = "rz" -> net({"ShiftLeft", "ShiftRight"},
                              {"ControlLeft", "ControlRight"})]

\* C33: in keyboard-fallback mode a key-down or key-up event buffers a
\* sample only if, after the event, the held mapped keys give a non-zero net
\* value on some axis, each held key contributing 0.1 * sensitivity and
\* opposite keys cancelling; an event after which no mapped key is held
\* buffers nothing.
C33_KeysBufferOnlyNetInput ==
  [][(lastOp'.op \in {"keydown", "keyup"} /\ Len(keyStates) = 1) =>
       LET net == NetAxes(keyStates'[1])
           raw == [a \in AxisSet |->
                     RMul(R(net[a]), RMul(Rat(1, 10), settings.sensitivity))]
       IN  /\ keyStates'[1] =
                IF lastOp'.op = "keydown"
                THEN keyStates[1] \cup {lastOp'.args[1]}
                ELSE keyStates[1] \ {lastOp'.args[1]}
           /\ (\A a \in AxisSet : net[a] = 0) =>
                /\ ctl' = ctl
                /\ nav' = nav
           /\ (\E a \in AxisSet : net[a] # 0) =>
                /\ Len(ctl'.motionBuffer) = Len(ctl.motionBuffer) + 1
                /\ ctl'.lastMotion =
                     handleMotion(ctl, Env(nav, timers), settings,
                                  raw).ctl.lastMotion]_vars

\* C33 witness: the key opposite to a held one went down, and the event
\* buffered nothing although a sample had been buffered before.
C33_Witness ==
  /\ lastOp.op = "keydown"
  /\ Len(keyStates) = 1
  /\ keyStates[1] = {"KeyA", "KeyD"}
  /\ Len(ctl.motionBuffer) = 1

\* The keys processKeyboardInput reads.
MappedKeys ==
  {"KeyA", "KeyD", "KeyW", "KeyS", "KeyQ", "KeyE", "ArrowLeft", "ArrowRight",
   "ArrowUp", "ArrowDown", "ShiftLeft", "ShiftRight", "ControlLeft",
   "ControlRight"}

\* The last step was a frame that left the camera pose as it was: it found
\* no sample, or the smoothed sample it applied was zero on every axis.
AtRest ==
  /\ lastOp.op = "processMotion"
  /\ \/ ctl.motionBuffer = <<>>
     \/ \A a \in AxisSet : smoothedMotion(ctl, settings.smoothing)[a] = R(0)

C35_DefaultKeyMoves ==
  (/\ settings = defaultSpaceMouseSettings
   /\ lastOp.op = "keydown"
   /\ Len(keyStates) = 1
   /\ \E code \in MappedKeys : keyStates[1] = {code}) =>
    /\ ctl.motionBuffer # <<>>
    /\ \A a \in AxisSet :
         NetAxes(keyStates[1])[a] # 0 =>
           ctl.motionBuffer[Len(ctl.motionBuffer)][a] # R(0)

\* C36 (as claimed): whatever initialize() and cleanup() calls were made, at
\* most one frame callback of the motion-processing loop is pending, and
\* none is pending once cleanup() has run.
C36_OneLoopPending ==
  /\ Cardinality(frames) <= 1
  /\ lastOp.op = "cleanup" => frames = {}

\* C37: whenever isAnimating is set at least one auto-clear deadline is
\* pending; the flag goes from set to clear only in the step in which a
\* deadline fires; and a set flag is eventually clear again.
C37_FlagBackedByDeadline ==
  /\ [](nav.isAnimating => timers > 0)
  /\ [][(nav.isAnimating /\ ~nav'.isAnimating) =>
          (lastOp'.op = "timer" /\ timers' = timers - 1)]_vars
  /\ (nav.isAnimating ~> ~nav.isAnimating)

\* C37 witness: a deadline has fired and cleared the flag while a deadline
\* scheduled by a later call is still pending.
C37_Witness ==
  /\ lastOp.op = "timer"
  /\ ~nav.isAnimating
  /\ timers > 0

\* C38 (as claimed): the data a cache hit returns was generated for the
\* concept, description and context of the call that hit.
C38_HitForSameTriple ==
  reply.kind = "hit" => reply.data = Concepts(reply.args)

LoadFailures == {"syntaxError", "rejected"}

\* C39: a loadSettings() call ends with isLoading = false whatever the read
\* gave, and a suspended call does end; when the read or the parse failed,
\* error holds a message and the step that ends the call leaves the five
\* sections as they were.
C39_LoadSettingsEnds ==
  /\ [][(\/ lastOp'.op = "loadSettled"
         \/ lastOp'.op = "loadSettings" /\ lastOp'.args # <<"suspended">>) =>
          /\ ~app'.isLoading
          /\ lastOp'.args[1] \in LoadFailures =>
               /\ app'.error \in {Message("Unexpected token"),
                                  Message("Failed to load settings")}
               /\ settings' = settings
               /\ \A section \in SectionNames \ {"spaceMouse"} :
                    app'[section] = app[section]]_vars
  /\ (pending.loadSettings > 0) ~>
       (/\ pending.loadSettings = 0
        /\ lastOp.op = "loadSettled"
        /\ ~app.isLoading)

\* C39 witness: a suspended loadSettings() ended in the catch block after
\* the audio section had been changed: the change is still there, error is
\* set and isLoading is false.
C39_Witness ==
  /\ lastOp.op = "loadSettled"
  /\ lastOp.args[1] \in LoadFailures
  /\ app.audio # defaultSettings.audio
  /\ app.error # NoError
  /\ ~app.isLoading

====
